---- MODULE Spec2Model ----
(***************************************************************************)
(* Execution sequencing of a relational-algebra plan                       *)
(* (QueryEngine/Descriptors/RelAlgExecutionDescriptor.cpp) and the step    *)
(* loop that drives it (QueryEngine/RelAlgExecutor.cpp).                   *)
(*                                                                         *)
(* A plan is a sequence of operator nodes; node 1 is the sink.  A node is  *)
(* addressed by its position in the plan (its pointer) and carries its     *)
(* kind, its ordered inputs and, for a Project, whether it holds a window  *)
(* function expression.  Vertices are the dense indices 0..n-1 build_dag   *)
(* hands out; ordering_ and descs_ are 1-based sequences addressed with    *)
(* the 0-based cursors of the code plus one.                               *)
(***************************************************************************)
EXTENDS Integers, Sequences, FiniteSets, TLC

\* Largest number of operator nodes of a plan: of the sequences that are
\* built and stepped through (Spec), of those that are only built lazily
\* and stepped through (LazySpec), and of those that are executed (ExecSpec).
MaxNodes == 4
MaxLazyNodes == 5
MaxExecNodes == 3

\* Operator kinds of the plans that are enumerated.  Filter, Aggregate and
\* TableFunction are told apart from Project/Compound/LogicalUnion by no
\* dynamic_cast of the sequencer, so they are represented by those.
LeafKinds == {"Scan", "LogicalValues"}
UnaryKinds == {"Project", "Compound", "Sort"}
BinaryKinds == {"Join", "LeftDeepInnerJoin", "LogicalUnion"}

Node(k, inp, w) == [kind |-> k, inputs |-> inp, window |-> w]

\* The nodes that may stand at position i of a plan of n nodes: inputs are
\* drawn from the later positions, which makes every plan acyclic.
NodeChoices(i, n) ==
  LET U == (i + 1)..n
  IN {Node(k, <<>>, FALSE) : k \in LeafKinds}
       \cup {Node(k, <<a>>, FALSE) : k \in UnaryKinds, a \in U}
       \cup {Node("Project", <<a>>, TRUE) : a \in U}
       \cup {Node(k, <<a, b>>, FALSE) : k \in BinaryKinds, a \in U, b \in U}

InputsOf(p, m) == {p[m].inputs[i] : i \in 1..Len(p[m].inputs)}

\* Node i of a plan is wanted when an earlier node takes it as an input: a
\* plan all of whose nodes are wanted is the DAG below its sink.
Wanted(p, i) == i = 1 \/ \E m \in 1..(i - 1) : m <= Len(p) /\ i \in InputsOf(p, m)

\* hdk::ir::Node::getId(): the builder numbers the nodes of a plan apart.
getId(n) == n

(***************************************************************************)
(* build_dag                                                               *)
(***************************************************************************)
\* A graph is [verts, edges]: verts[v + 1] is the node of vertex v, edges
\* the add_edge calls in order, each <<source vertex, target vertex>>.
VertexOf(verts, node) == CHOOSE v \in 0..(Len(verts) - 1) : verts[v + 1] = node

Visited(verts, node) == \E v \in 1..Len(verts) : verts[v] = node

\* The arity CHECKs of build_dag's switch, for one node.
ArityCheck(nd) ==
  CASE Len(nd.inputs) = 0 -> nd.kind \in {"LogicalValues", "TableFunction"}
    [] Len(nd.inputs) = 1 -> TRUE
    [] Len(nd.inputs) = 2 ->
         nd.kind \in {"Join", "LeftDeepInnerJoin", "LogicalUnion", "TableFunction"}
    [] OTHER -> nd.kind \in {"LeftDeepInnerJoin", "LogicalUnion", "TableFunction"}

\* A loop over the inputs that gives an input a vertex every time it is met.
RECURSIVE AddInputsEveryTime(_, _, _, _)
AddInputsEveryTime(plan, node, i, st) ==
  IF i > Len(plan[node].inputs)
    THEN st
    ELSE LET input == plan[node].inputs[i]
             verts1 == Append(st.verts, input)
             edge == <<Len(verts1) - 1, VertexOf(verts1, node)>>
         IN AddInputsEveryTime(plan, node, i + 1,
                               [verts |-> verts1,
                                edges |-> Append(st.edges, edge),
                                stack |-> Append(st.stack, input),
                                ok |-> st.ok])

\* The for loop over the inputs of one popped node.
RECURSIVE AddInputs(_, _, _, _)
AddInputs(plan, node, i, st) ==
  IF i > Len(plan[node].inputs)
    THEN st
    ELSE LET input == plan[node].inputs[i]
             visited == Visited(st.verts, input)
             verts1 == IF visited THEN st.verts ELSE Append(st.verts, input)
             edge == <<VertexOf(verts1, input), VertexOf(verts1, node)>>
         IN AddInputs(plan, node, i + 1,
                      [verts |-> verts1,
                       edges |-> Append(st.edges, edge),
                       stack |-> IF visited THEN st.stack ELSE Append(st.stack, input),
                       ok |-> st.ok])

RECURSIVE BuildDagLoop(_, _)
BuildDagLoop(plan, st) ==
  IF st.stack = <<>>
    THEN st
    ELSE LET node == st.stack[Len(st.stack)]
             popped == [st EXCEPT !.stack = SubSeq(@, 1, Len(@) - 1)]
         IN IF plan[node].kind = "Scan"
              THEN BuildDagLoop(plan, popped)
              ELSE IF ~ArityCheck(plan[node])
                     THEN [popped EXCEPT !.ok = FALSE]
                     ELSE BuildDagLoop(plan, AddInputs(plan, node, 1, popped))

build_dag(plan) ==
  BuildDagLoop(plan, [verts |-> <<1>>, edges |-> <<>>, stack |-> <<1>>, ok |-> TRUE])

EmptyGraph == [verts |-> <<>>, edges |-> <<>>]

NumVertices(g) == Len(g.verts)

KindOf(plan, g, v) == plan[g.verts[v + 1]].kind

\* The out-edge targets (consumers) and in-edge sources (producers) of a vertex, one per edge.
OutEdges(g, v) ==
  SelectSeq(g.edges, LAMBDA e : e[1] = v)

InEdges(g, v) ==
  SelectSeq(g.edges, LAMBDA e : e[2] = v)

out_degree(g, v) == Len(OutEdges(g, v))

(***************************************************************************)
(* boost::topological_sort followed by std::reverse                        *)
(***************************************************************************)
RECURSIVE DfsVisit(_, _, _)
RECURSIVE DfsOut(_, _, _, _)
DfsVisit(g, v, st) ==
  LET discovered == [st EXCEPT !.seen = @ \cup {v}]
      finished == DfsOut(g, OutEdges(g, v), 1, discovered)
  IN [finished EXCEPT !.order = Append(@, v)]

DfsOut(g, out, i, st) ==
  IF i > Len(out)
    THEN st
    ELSE DfsOut(g, out, i + 1,
                IF out[i][2] \in st.seen THEN st ELSE DfsVisit(g, out[i][2], st))

RECURSIVE DfsAll(_, _, _)
DfsAll(g, v, st) ==
  IF v >= NumVertices(g)
    THEN st
    ELSE DfsAll(g, v + 1, IF v \in st.seen THEN st ELSE DfsVisit(g, v, st))

topological_sort(g) == DfsAll(g, 0, [seen |-> {}, order |-> <<>>]).order

\* Reverse without the std::reverse: consumers stay ahead of their producers.
NotReversed(s) == s

Reverse(s) == [i \in 1..Len(s) |-> s[Len(s) + 1 - i]]

(***************************************************************************)
(* merge_sort_with_input and get_join_vertices                             *)
(***************************************************************************)
NoError == "none"

\* SortInputs without the out_degree test: a shared Sort input is accepted.
RECURSIVE SortInputsNoShareCheck(_, _, _, _, _)
SortInputsNoShareCheck(plan, g, vertices, i, inputs) ==
  IF i > Len(vertices)
    THEN [err |-> NoError, inputs |-> inputs]
    ELSE LET vert == vertices[i]
         IN IF KindOf(plan, g, vert) # "Sort"
              THEN SortInputsNoShareCheck(plan, g, vertices, i + 1, inputs)
              ELSE LET ie == InEdges(g, vert)
                       in_vert == ie[1][1]
                   IN IF KindOf(plan, g, in_vert) = "Scan"
                        THEN [err |-> "Standalone sort not supported yet", inputs |-> inputs]
                        ELSE SortInputsNoShareCheck(plan, g, vertices, i + 1,
                                                    inputs \cup {in_vert})

\* First loop of merge_sort_with_input: the inputs of the Sort vertices, or
\* the error of the first Sort that is rejected.
RECURSIVE SortInputs(_, _, _, _, _)
SortInputs(plan, g, vertices, i, inputs) ==
  IF i > Len(vertices)
    THEN [err |-> NoError, inputs |-> inputs]
    ELSE LET vert == vertices[i]
         IN IF KindOf(plan, g, vert) # "Sort"
              THEN SortInputs(plan, g, vertices, i + 1, inputs)
              ELSE LET ie == InEdges(g, vert)
                   IN IF ~(Len(plan[g.verts[vert + 1]].inputs) = 1 /\ Len(ie) = 1)
                        THEN [err |-> "CHECK", inputs |-> inputs]
                        ELSE LET in_vert == ie[1][1]
                             IN IF KindOf(plan, g, in_vert) = "Scan"
                                  THEN [err |-> "Standalone sort not supported yet",
                                        inputs |-> inputs]
                                  ELSE IF out_degree(g, in_vert) > 1
                                         THEN [err |-> "Sort's input node used by others not supported yet",
                                               inputs |-> inputs]
                                         ELSE SortInputs(plan, g, vertices, i + 1,
                                                         inputs \cup {in_vert})

\* merge_sort_with_input without the second loop: the Sort inputs stay in the ordering.
merge_sort_keeps_inputs(plan, g, vertices) ==
  LET r == SortInputs(plan, g, vertices, 1, {})
  IN [err |-> r.err, vertices |-> IF r.err = NoError THEN vertices ELSE <<>>]

merge_sort_with_input(plan, g, vertices) ==
  LET r == SortInputs(plan, g, vertices, 1, {})
  IN [err |-> r.err,
      vertices |-> IF r.err = NoError
                     THEN SelectSeq(vertices, LAMBDA vert : vert \notin r.inputs)
                     ELSE <<>>]

\* JoinVertices without the test of the consumer's kind: every plain Join
\* with one out-edge is absorbed.
RECURSIVE JoinVerticesAnyConsumer(_, _, _, _, _)
JoinVerticesAnyConsumer(plan, g, vertices, i, joins) ==
  IF i > Len(vertices)
    THEN [err |-> NoError, joins |-> joins]
    ELSE LET vert == vertices[i]
         IN IF KindOf(plan, g, vert) \in {"LeftDeepInnerJoin", "Join"}
              THEN IF KindOf(plan, g, vert) = "Join" /\ out_degree(g, vert) > 1
                     THEN [err |-> "Join used more than once not supported yet", joins |-> {}]
                     ELSE JoinVerticesAnyConsumer(plan, g, vertices, i + 1, joins \cup {vert})
              ELSE JoinVerticesAnyConsumer(plan, g, vertices, i + 1, joins)

RECURSIVE JoinVertices(_, _, _, _, _)
JoinVertices(plan, g, vertices, i, joins) ==
  IF i > Len(vertices)
    THEN [err |-> NoError, joins |-> joins]
    ELSE LET vert == vertices[i]
         IN IF KindOf(plan, g, vert) = "LeftDeepInnerJoin"
              THEN JoinVertices(plan, g, vertices, i + 1, joins \cup {vert})
              ELSE IF KindOf(plan, g, vert) # "Join"
                     THEN JoinVertices(plan, g, vertices, i + 1, joins)
                     ELSE IF out_degree(g, vert) > 1
                            THEN [err |-> "Join used more than once not supported yet",
                                  joins |-> {}]
                            ELSE IF out_degree(g, vert) # 1
                                   THEN [err |-> "CHECK", joins |-> {}]
                                   ELSE LET out_vert == OutEdges(g, vert)[1][2]
                                        IN JoinVertices(plan, g, vertices, i + 1,
                                             IF KindOf(plan, g, out_vert) # "Join"
                                               THEN joins \cup {vert}
                                               ELSE joins)

get_join_vertices(plan, g, vertices) == JoinVertices(plan, g, vertices, 1, {})

(***************************************************************************)
(* RaExecutionSequence                                                     *)
(***************************************************************************)
\* The members next() reads and writes; ret is what the call returns: the
\* body of the new step, or None.
None == 0

\* next() that advances the cursor before it tests it against the end.
RECURSIVE NextLoopPastEnd(_, _, _, _)
NextLoopPastEnd(plan, g, joins, m) ==
  IF ~(m.current_vertex < Len(m.ordering))
    THEN [m EXCEPT !.ret = None, !.current_vertex = @ + 1]
    ELSE LET vert == m.ordering[m.current_vertex + 1]
             adv == [m EXCEPT !.current_vertex = @ + 1]
         IN IF vert \in joins
              THEN NextLoopPastEnd(plan, g, joins, adv)
              ELSE IF KindOf(plan, g, vert) = "Scan"
                     THEN NextLoopPastEnd(plan, g, joins, [adv EXCEPT !.scan_count = @ + 1])
                     ELSE [adv EXCEPT !.descs = Append(@, g.verts[vert + 1]),
                                      !.ret = g.verts[vert + 1]]

\* next() without the Scan test: a Scan vertex gets a step.
RECURSIVE NextLoopScanSteps(_, _, _, _)
NextLoopScanSteps(plan, g, joins, m) ==
  IF ~(m.current_vertex < Len(m.ordering))
    THEN [m EXCEPT !.ret = None]
    ELSE LET vert == m.ordering[m.current_vertex + 1]
             adv == [m EXCEPT !.current_vertex = @ + 1]
         IN IF vert \in joins
              THEN NextLoopScanSteps(plan, g, joins, adv)
              ELSE [adv EXCEPT !.descs = Append(@, g.verts[vert + 1]),
                               !.ret = g.verts[vert + 1]]

RECURSIVE NextLoop(_, _, _, _)
NextLoop(plan, g, joins, m) ==
  IF ~(m.current_vertex < Len(m.ordering))
    THEN [m EXCEPT !.ret = None]
    ELSE LET vert == m.ordering[m.current_vertex + 1]
             adv == [m EXCEPT !.current_vertex = @ + 1]
         IN IF vert \in joins
              THEN NextLoop(plan, g, joins, adv)
              ELSE IF KindOf(plan, g, vert) = "Scan"
                     THEN NextLoop(plan, g, joins, [adv EXCEPT !.scan_count = @ + 1])
                     ELSE [adv EXCEPT !.descs = Append(@, g.verts[vert + 1]),
                                      !.ret = g.verts[vert + 1]]

\* while (next()) {}
RECURSIVE BuildSequence(_, _, _, _)
BuildSequence(plan, g, joins, m) ==
  LET n == NextLoop(plan, g, joins, m)
  IN IF n.ret = None THEN n ELSE BuildSequence(plan, g, joins, n)

VARIABLES
  plan,             \* the plan behind the sink handed to the constructor
  plan_size,        \* the number of nodes of that plan
  pc,               \* "plan" (the plan is being handed over), "new" (no sequence yet),
                    \* "ok" (constructed), "error" (the constructor threw), "abort" (a CHECK failed)
  error,            \* the message of the exception thrown, or NoError
  graph_, ordering_, joins_, descs_, current_vertex_, scan_count_,
  last_next,        \* "unset", or what the last call of next() returned: "step" or "none"
  none_repeated     \* next() has been called after a call that returned none

seqVars ==
  <<plan, plan_size, pc, error, graph_, ordering_, joins_, descs_, current_vertex_, scan_count_, last_next,
    none_repeated>>

VARIABLES
  config,           \* what executeRelAlgSeq reads of co, eo and config_, and whether the
                    \* Compound bodies of the plan group or aggregate
  exec_pc,          \* "idle", "loop" (between two steps), "step" (executeRelAlgStep is running),
                    \* "done" (returned), "failed" (threw), "aborted" (CHECK or LOG(FATAL))
  exec_desc_count,  \* the number of steps executeRelAlgSeq runs
  step_i,           \* the loop variable i
  attempt,          \* the attempt of step i under way: "first", "cpu", "extern"
  results,          \* the indices of the steps whose descriptor holds a result
  temporary_tables_, \* the keys of temporary_tables_
  last_outcome      \* what the executor answered to the last attempt, or "none"

execVars ==
  <<config, exec_pc, exec_desc_count, step_i, attempt, results, temporary_tables_,
    last_outcome>>

VARIABLES
  oom_cfg,          \* config_.exec.watchdog.enable, config_.exec.heterogeneous.allow_cpu_retry
                    \* and the has_ndv_estimation argument of execute_and_handle_errors
  oom_pc,           \* "idle"; the executor is running for "first" (execute_and_handle_errors),
                    \* "single_frag" (the kernel-per-fragment retry) or "cpu" (the retry loop);
                    \* "returned", "thrown" (std::runtime_error), "cardinality"
                    \* (CardinalityEstimationRequired thrown), "aborted" (CHECK)
  oom_error,        \* what() of the runtime_error thrown, or NoError
  oom_code,         \* the error code of the last executor invocation, NoErrorCode for success
  guess,            \* the max_groups_buffer_entry_guess handed to the executor
  iteration_ctr,    \* iteration_ctr of the retry loop
  doublings,        \* how often the retry loop has doubled the guess
  result_from,      \* the invocation whose result is held in result, or "none"
  oom_in,           \* co, eo and work_unit.exe_unit.use_bump_allocator as the caller passed them
  oom_call          \* the arguments of the executor invocation under way (the last one made)

oomVars ==
  <<oom_cfg, oom_pc, oom_error, oom_code, guess, iteration_ctr, doublings, result_from,
    oom_in, oom_call>>

VARIABLES
  cardinality_cache,   \* the executor's cardinality cache: a set of [key, card] entries
  wu_pc,               \* "idle"; "preflight" (the executor is running the filtered count),
                       \* "try", "catch" (execute_and_handle_errors is running in the try
                       \* block, in the catch clause); "returned", "thrown" (std::runtime_error),
                       \* "cardinality" (CardinalityEstimationRequired leaves executeWorkUnit),
                       \* "must_run_on_cpu" (QueryMustRunOnCpu leaves it)
  wu_in,               \* what executeWorkUnit reads of its arguments and of config_
  wu_call,             \* the arguments of the running call of execute_and_handle_errors
  wu_error,            \* what() of the runtime_error thrown, or NoError
  cached_cardinality,  \* what the last getCachedCardinality of this call returned
  lookups,             \* the number of getCachedCardinality calls of this call
  ndv_ran,             \* getNDVEstimation was run in this call
  executor_code,       \* the error code the last executor call of executeWorkUnit ended
                       \* with, NoErrorCode for none
  hit_at_start         \* the cache held an entry for cache_key when this call began

wuVars ==
  <<cardinality_cache, wu_pc, wu_in, wu_call, wu_error, cached_cardinality, lookups, ndv_ran,
    executor_code, hit_at_start>>

VARIABLES
  aggregates,          \* the nodes of the plan that are hdk::ir::Aggregate
  nops,                \* the nodes whose isNop() is true
  collations,          \* the Sort nodes whose collationCount() is not 0
  single_step,         \* what executeRelAlgQuerySingleStep executes and returns with the
                       \* result, or NoSingleStep
  table_data,          \* for every key of temporary_tables_, the node whose execution
                       \* computed the table held under it
  result_data          \* for every step of results, the node whose execution computed
                       \* the result its descriptor holds

annVars == <<aggregates, nops, collations>>

aggVars == <<aggregates, nops, collations, single_step, table_data, result_data>>

VARIABLES
  sq_count,            \* getSubqueries().size()
  context_data,        \* the subqueries for whose node hasContextData() is true
  node_result,         \* the subqueries whose node has been handed a result by setResult
  sq_pc,               \* "idle"; "dispatch" (executeRelAlgQueryNoRetry is in or past the
                       \* loop over the subqueries), "sub" (the sub-engine is executing the
                       \* sequence of subquery sq_i), "thrown" (the sub-engine threw)
  sq_i,                \* the position of the loop in getSubqueries(), from 1
  sub_tables,          \* the keys of temporary_tables_ of the last sub-engine constructed
  dispatched,          \* the subqueries this call has handed to a sub-engine
  skipped              \* the subqueries this call has passed over with continue

sqVars ==
  <<sq_count, context_data, node_result, sq_pc, sq_i, sub_tables, dispatched, skipped>>

VARIABLES
  sort_in,             \* what executeSort reads of the Sort node, its source and eo
  sort_ran,            \* what the last execution of a Sort step did: how it was entered
                       \* ("step" for executeRelAlgStep, "single" for
                       \* executeRelAlgQuerySingleStep, or "none"), the node executed
                       \* ("sort", "source" or "none"), whether ResultSet::sort was called
                       \* and whether dropFirstN/keepFirstN were
  result_set,          \* the ResultSet at hand: storage_, the number of non-empty entries,
                       \* permutation_.size(), drop_first_, keep_first_, cached_row_count_
                       \* and just_explain_
  returned_row_count   \* what the last rowCount() on result_set returned, NoRowCount for none

sortVars == <<sort_in, sort_ran, result_set, returned_row_count>>

vars == <<seqVars, execVars, oomVars, wuVars, aggVars, sqVars, sortVars>>

SqInit ==
  /\ sq_count = 0
  /\ context_data = {}
  /\ node_result = {}
  /\ sq_pc = "idle"
  /\ sq_i = 1
  /\ sub_tables = {}
  /\ dispatched = {}
  /\ skipped = {}

NoRowCount == -1

NoSort == [collation_count |-> 0, limit |-> 0, offset |-> 0, source_aggregate |-> FALSE]

NoSortRan ==
  [entry |-> "none", executed |-> "none", rows_sorted |-> FALSE, dropped |-> FALSE,
   kept |-> FALSE]

\* constexpr int64_t uninitialized_cached_row_count{-1}
uninitialized_cached_row_count == -1

\* A ResultSet as its constructors leave it, without storage.
EmptyResultSet ==
  [storage_ |-> FALSE, entries |-> 0, permutation_ |-> 0, drop_first_ |-> 0, keep_first_ |-> 0,
   cached_row_count_ |-> uninitialized_cached_row_count, just_explain_ |-> FALSE]

SortInit ==
  /\ sort_in = NoSort
  /\ sort_ran = NoSortRan
  /\ result_set = EmptyResultSet
  /\ returned_row_count = NoRowCount

NoSingleStep ==
  [body |-> 0, executed |-> 0, merge_type |-> "none", node_id |-> 0, via_source |-> FALSE]

AggInit ==
  /\ aggregates = {}
  /\ nops = {}
  /\ collations = {}
  /\ single_step = NoSingleStep
  /\ table_data = {}
  /\ result_data = {}

NoConfig ==
  [entry |-> "Seq", device_type |-> "CPU", allow_query_step_cpu_retry |-> FALSE,
   enable_interop |-> FALSE, just_explain |-> FALSE, compound_aggregates |-> FALSE,
   with_existing_temp_tables |-> FALSE]

ExecInit ==
  /\ config = NoConfig
  /\ exec_pc = "idle"
  /\ exec_desc_count = 0
  /\ step_i = 0
  /\ attempt = "first"
  /\ results = {}
  /\ temporary_tables_ = {}
  /\ last_outcome = "none"

SeqInit(max_nodes) ==
  /\ plan = <<>>
  /\ plan_size \in 1..max_nodes
  /\ pc = "plan"
  /\ error = NoError
  /\ graph_ = EmptyGraph
  /\ ordering_ = <<>>
  /\ joins_ = {}
  /\ descs_ = <<>>
  /\ current_vertex_ = 0
  /\ scan_count_ = 0
  /\ last_next = "unset"
  /\ none_repeated = FALSE

\* The sink test without the Join case.
SinkRejectedScanOnly(p) == p[1].kind = "Scan"

\* The sinks the constructor rejects outright.
SinkRejected(p) == p[1].kind \in {"Scan", "Join"}

\* The members at the end of the constructor, or at the throw that ends it.
Constructed(p, build_sequence) ==
  LET fresh == [pc |-> "ok", error |-> NoError, graph |-> EmptyGraph, ordering |-> <<>>,
                joins |-> {}, descs |-> <<>>, current_vertex |-> 0, scan_count |-> 0,
                ret |-> None, last_next |-> "unset"]
  IN IF SinkRejected(p)
       THEN [fresh EXCEPT !.pc = "error", !.error = "Query not supported yet"]
       ELSE LET dag == build_dag(p)
                g == [verts |-> dag.verts, edges |-> dag.edges]
                topo == Reverse(topological_sort(g))
                merged == merge_sort_with_input(p, g, topo)
                jn == get_join_vertices(p, g, merged.vertices)
                withGraph == [fresh EXCEPT !.graph = g]
            IN IF ~dag.ok
                 THEN [fresh EXCEPT !.pc = "abort"]
                 ELSE IF merged.err # NoError
                        THEN [withGraph EXCEPT !.ordering = topo,
                                               !.pc = IF merged.err = "CHECK"
                                                        THEN "abort" ELSE "error",
                                               !.error = merged.err]
                        ELSE IF jn.err # NoError
                               THEN [withGraph EXCEPT !.ordering = merged.vertices,
                                                      !.pc = IF jn.err = "CHECK"
                                                               THEN "abort" ELSE "error",
                                                      !.error = jn.err]
                               ELSE LET m == [withGraph EXCEPT !.ordering = merged.vertices,
                                                               !.joins = jn.joins]
                                    IN IF build_sequence
                                         THEN [BuildSequence(p, g, jn.joins, m)
                                                 EXCEPT !.last_next = "none"]
                                         ELSE m

(***************************************************************************)
(* The const queries of RaExecutionSequence, over the current members      *)
(***************************************************************************)
\* A CHECK that fails ends the process: a query that hits one returns Aborted.
Aborted == -3

RECURSIVE CountDescriptors(_, _, _, _, _)
CountDescriptors(p, g, ordering, joins, crt_vertex) ==
  IF ~(crt_vertex < Len(ordering))
    THEN 0
    ELSE LET vert == ordering[crt_vertex + 1]
         IN IF vert \in joins \/ KindOf(p, g, vert) = "Scan"
              THEN CountDescriptors(p, g, ordering, joins, crt_vertex + 1)
              ELSE 1 + CountDescriptors(p, g, ordering, joins, crt_vertex + 1)

totalDescriptorsCount == CountDescriptors(plan, graph_, ordering_, joins_, 0)

HasScanInput(p, node) == \E i \in 1..Len(p[node].inputs) : p[p[node].inputs[i]].kind = "Scan"

\* The while loop of stepsToNextBroadcast from crt_vertex on, with
\* steps_to_next_broadcast = steps so far.
RECURSIVE BroadcastLoop(_, _, _, _, _, _)
BroadcastLoop(p, g, ordering, joins, crt_vertex, steps) ==
  IF ~(crt_vertex < Len(ordering))
    THEN steps
    ELSE LET vert == ordering[crt_vertex + 1]
             crt == crt_vertex + 1
             body == g.verts[vert + 1]
             node == IF p[body].kind = "Sort" THEN p[body].inputs[1] ELSE body
         IN IF vert \in joins
              THEN IF p[body].kind # "LeftDeepInnerJoin"
                     THEN Aborted
                     ELSE IF HasScanInput(p, body)
                            THEN steps
                            ELSE IF crt < Len(ordering) - 1
                                   THEN BroadcastLoop(p, g, ordering, joins, crt + 1, steps + 1)
                                   ELSE IF crt # Len(ordering) - 1
                                          THEN Aborted
                                          ELSE steps + 1
              ELSE IF p[body].kind = "Sort" /\ Len(p[body].inputs) # 1
                     THEN Aborted
                     ELSE IF p[node].kind = "Scan"
                            THEN steps
                            ELSE IF p[node].kind = "Project" /\ p[node].window
                                   THEN BroadcastLoop(p, g, ordering, joins, crt, steps + 1)
                                   ELSE IF HasScanInput(p, node)
                                          THEN steps
                                          ELSE BroadcastLoop(p, g, ordering, joins, crt, steps + 1)

stepsToNextBroadcast == BroadcastLoop(plan, graph_, ordering_, joins_, current_vertex_, 0)

\* std::nullopt
NullOpt == -2

nextStepId(after_broadcast) ==
  IF after_broadcast
    THEN IF current_vertex_ = Len(ordering_)
           THEN NullOpt
           ELSE IF stepsToNextBroadcast = Aborted
                  THEN Aborted
                  ELSE Len(descs_) + stepsToNextBroadcast
    ELSE IF current_vertex_ = Len(ordering_) THEN NullOpt ELSE Len(descs_)

\* An executionFinished that is also true whenever one step is left.
executionFinishedOneStepLeft ==
  IF current_vertex_ = Len(ordering_)
    THEN "true"
    ELSE LET next_step_id == nextStepId(TRUE)
         IN IF next_step_id = Aborted
              THEN "abort"
              ELSE IF \/ next_step_id = NullOpt
                      \/ next_step_id = totalDescriptorsCount
                      \/ Len(descs_) + 1 = totalDescriptorsCount
                     THEN "true"
                     ELSE "false"

\* "true", "false", or "abort" when a CHECK of stepsToNextBroadcast fails.
executionFinished ==
  IF current_vertex_ = Len(ordering_)
    THEN "true"
    ELSE LET next_step_id == nextStepId(TRUE)
         IN IF next_step_id = Aborted
              THEN "abort"
              ELSE IF next_step_id = NullOpt \/ next_step_id = totalDescriptorsCount
                     THEN "true"
                     ELSE "false"

\* std::find_if over descs_ from index idx down to 0: the index found, or NotFound.
NotFound == -1

\* The search started at the last step instead of at idx.
FindBodyFromBack(descs, body_id, idx) ==
  LET found == {j \in 0..(Len(descs) - 1) : getId(descs[j + 1]) = body_id}
  IN IF found = {} THEN NotFound ELSE CHOOSE j \in found : \A k \in found : k <= j

RECURSIVE FindBody(_, _, _)
FindBody(descs, body_id, idx) ==
  IF idx < 0
    THEN NotFound
    ELSE IF getId(descs[idx + 1]) = body_id THEN idx ELSE FindBody(descs, body_id, idx - 1)

\* Aborted stands for the failed CHECK_LT, NotFound for nullptr.
getDescriptorByBodyId(body_id, start_idx) ==
  IF ~(start_idx < Len(descs_))
    THEN Aborted
    ELSE LET from_end == Len(descs_) - (start_idx + 1)
         IN FindBody(descs_, body_id, Len(descs_) - 1 - from_end)

\* The plan builder hands over the next node of the plan, the sink first.
PlanNode ==
  /\ pc = "plan"
  /\ Wanted(plan, Len(plan) + 1)
  /\ \E nd \in NodeChoices(Len(plan) + 1, plan_size) : plan' = Append(plan, nd)
  /\ pc' = IF Len(plan) + 1 = plan_size THEN "new" ELSE "plan"
  /\ UNCHANGED <<plan_size, error, graph_, ordering_, joins_, descs_, current_vertex_,
                 scan_count_, last_next, none_repeated, execVars, oomVars, wuVars, aggVars, sqVars, sortVars>>

\* RaExecutionSequence::RaExecutionSequence(sink, build_sequence)
Construct(build_sequence) ==
  /\ pc = "new"
  /\ LET c == Constructed(plan, build_sequence)
     IN /\ pc' = c.pc
        /\ error' = c.error
        /\ graph_' = c.graph
        /\ ordering_' = c.ordering
        /\ joins_' = c.joins
        /\ descs_' = c.descs
        /\ current_vertex_' = c.current_vertex
        /\ scan_count_' = c.scan_count
        /\ last_next' = c.last_next
  /\ UNCHANGED <<plan, plan_size, none_repeated, execVars, oomVars, wuVars, aggVars, sqVars, sortVars>>

\* RaExecutionSequence::next()
NextStep ==
  /\ pc = "ok"
  /\ LET m == NextLoop(plan, graph_, joins_,
                       [ordering |-> ordering_, descs |-> descs_,
                        current_vertex |-> current_vertex_, scan_count |-> scan_count_,
                        ret |-> None])
     IN /\ descs_' = m.descs
        /\ current_vertex_' = m.current_vertex
        /\ scan_count_' = m.scan_count
        /\ last_next' = IF m.ret = None THEN "none" ELSE "step"
  /\ none_repeated' = (none_repeated \/ last_next = "none")
  /\ UNCHANGED <<plan, plan_size, pc, error, graph_, ordering_, joins_, execVars, oomVars, wuVars, aggVars, sqVars, sortVars>>

(***************************************************************************)
(* RelAlgExecutor::executeRelAlgSeq                                        *)
(***************************************************************************)
\* get_descriptor_count, or Aborted when its CHECK_GE fails.
get_descriptor_count(just_explain) ==
  IF just_explain
    THEN IF plan[descs_[1]].kind = "LogicalValues"
           THEN IF Len(descs_) >= 2 THEN 2 ELSE Aborted
           ELSE 1
    ELSE Len(descs_)

\* The body kinds executeRelAlgStep dispatches on; any other is LOG(FATAL).
HandledKinds ==
  {"Compound", "Project", "Aggregate", "Filter", "Sort", "LogicalValues", "LogicalUnion",
   "TableFunction"}

\* The kinds whose result may come back with filter push-down enabled, in
\* which case executeRelAlgStep returns before addTemporaryTable.
PushDownKinds == {"Compound", "Project", "Sort"}

\* What the executor can answer to one executeRelAlgStep call.
Outcomes == {"ok", "ok_push_down", "QueryMustRunOnCpu", "NativeExecutionError", "error"}

\* The loop with a catch-all that logs a failed step and goes on.
AfterAttemptSwallow(cfg, body_kind, att, outcome) ==
  CASE outcome \in {"ok", "ok_push_down"} -> "next"
    [] outcome = "QueryMustRunOnCpu" /\ att = "first" ->
         IF cfg.device_type # "GPU"
           THEN "abort"
           ELSE IF ~cfg.allow_query_step_cpu_retry THEN "throw" ELSE "retry_cpu"
    [] outcome = "NativeExecutionError" /\ att = "first" /\ cfg.entry = "Seq" ->
         IF ~cfg.enable_interop THEN "throw" ELSE "retry_extern"
    [] OTHER -> "next"

\* The loop without the catch clause for QueryMustRunOnCpu.
AfterAttemptNoCpuRetry(cfg, body_kind, att, outcome) ==
  CASE outcome \in {"ok", "ok_push_down"} -> "next"
    [] outcome = "NativeExecutionError" /\ att = "first" /\ cfg.entry = "Seq" ->
         IF ~cfg.enable_interop
           THEN "throw"
           ELSE IF body_kind = "Compound" /\ cfg.compound_aggregates
                  THEN "throw"
                  ELSE "retry_extern"
    [] OTHER -> "throw"

\* The loop without the test of the Compound body before the Extern attempt.
AfterAttemptExternAlways(cfg, body_kind, att, outcome) ==
  CASE outcome \in {"ok", "ok_push_down"} -> "next"
    [] outcome = "QueryMustRunOnCpu" /\ att = "first" ->
         IF cfg.device_type # "GPU"
           THEN "abort"
           ELSE IF ~cfg.allow_query_step_cpu_retry THEN "throw" ELSE "retry_cpu"
    [] outcome = "NativeExecutionError" /\ att = "first" /\ cfg.entry = "Seq" ->
         IF ~cfg.enable_interop THEN "throw" ELSE "retry_extern"
    [] OTHER -> "throw"

\* A try/catch whose clauses also cover the attempts they re-issue.
AfterAttemptLadder(cfg, body_kind, att, outcome) ==
  CASE outcome \in {"ok", "ok_push_down"} -> "next"
    [] outcome = "QueryMustRunOnCpu" ->
         IF cfg.device_type # "GPU"
           THEN "abort"
           ELSE IF ~cfg.allow_query_step_cpu_retry THEN "throw" ELSE "retry_cpu"
    [] outcome = "NativeExecutionError" /\ cfg.entry = "Seq" ->
         IF ~cfg.enable_interop
           THEN "throw"
           ELSE IF body_kind = "Compound" /\ cfg.compound_aggregates
                  THEN "throw"
                  ELSE "retry_extern"
    [] OTHER -> "throw"

\* The try/catch around executeRelAlgStep in the loop of executeRelAlgSeq
\* and of executeRelAlgSubSeq (which has no catch clause for
\* NativeExecutionError): what follows an attempt of step i that ended with outcome.
\* "next" (go on with i + 1), "retry_cpu", "retry_extern", "throw", or
\* "abort" when CHECK(co.device_type == GPU) fails.  A failure of a re-issued
\* attempt is raised inside the catch clause and leaves the loop.
AfterAttempt(cfg, body_kind, att, outcome) ==
  CASE outcome \in {"ok", "ok_push_down"} -> "next"
    [] outcome = "QueryMustRunOnCpu" /\ att = "first" ->
         IF cfg.device_type # "GPU"
           THEN "abort"
           ELSE IF ~cfg.allow_query_step_cpu_retry THEN "throw" ELSE "retry_cpu"
    [] outcome = "NativeExecutionError" /\ att = "first" /\ cfg.entry = "Seq" ->
         IF ~cfg.enable_interop
           THEN "throw"
           ELSE IF body_kind = "Compound" /\ cfg.compound_aggregates
                  THEN "throw"
                  ELSE "retry_extern"
    [] OTHER -> "throw"

\* An executeRelAlgSeq that never swaps temporary_tables_ away.
TablesAtStartKept(tables, with_existing_temp_tables) == tables

\* if (!with_existing_temp_tables) decltype(temporary_tables_)().swap(temporary_tables_)
TablesAtStart(tables, with_existing_temp_tables) ==
  IF with_existing_temp_tables THEN tables ELSE {}

\* executeRelAlgSeq up to the first executeRelAlgStep call.  NoRetry builds
\* the sequence with build_sequence = true before it calls this; a call
\* that follows one that returned on the same RelAlgExecutor gets a
\* sequence built anew, no descriptor of which holds a result.
ExecStart ==
  /\ pc = "ok" /\ last_next = "none" /\ exec_pc \in {"idle", "done"}
  /\ \E cfg \in [entry : {"Seq"}, device_type : {"GPU", "CPU"},
                  allow_query_step_cpu_retry : BOOLEAN, enable_interop : BOOLEAN,
                  just_explain : BOOLEAN, compound_aggregates : BOOLEAN,
                  with_existing_temp_tables : BOOLEAN] :
       /\ config' = cfg
       /\ temporary_tables_' = TablesAtStart(temporary_tables_, cfg.with_existing_temp_tables)
       /\ IF descs_ = <<>> \/ get_descriptor_count(cfg.just_explain) = Aborted
            THEN exec_pc' = "aborted" /\ exec_desc_count' = 0
            ELSE /\ exec_desc_count' = get_descriptor_count(cfg.just_explain)
                 /\ exec_pc' = "loop"
  /\ step_i' = 0
  /\ attempt' = "first"
  /\ results' = {}
  /\ last_outcome' = "none"
  /\ single_step' = NoSingleStep
  /\ table_data' = {entry \in table_data : entry.key \in temporary_tables_'}
  /\ result_data' = {}
  /\ UNCHANGED <<seqVars, oomVars, wuVars, annVars, sqVars, sortVars>>

\* executeRelAlgSubSeq(seq, interval, co, eo) up to the first
\* executeRelAlgStep call, on a sequence no step of which has run or whose
\* earlier interval has been executed.  temporary_tables_ is kept.
ExecStartSubSeq ==
  /\ pc = "ok" /\ last_next = "none" /\ exec_pc \in {"idle", "done"}
  /\ exec_pc = "done" => config.entry = "SubSeq"
  /\ \E cfg \in [entry : {"SubSeq"}, device_type : {"GPU", "CPU"},
                  allow_query_step_cpu_retry : BOOLEAN, enable_interop : BOOLEAN,
                  just_explain : {FALSE}, compound_aggregates : {FALSE},
                  with_existing_temp_tables : {TRUE}],
        first \in 0..Len(descs_), second \in 1..Len(descs_) :
       /\ first < second
       /\ exec_pc = "done" => first = exec_desc_count
       /\ config' = cfg
       /\ step_i' = first
       /\ exec_desc_count' = second
  /\ exec_pc' = "loop"
  /\ attempt' = "first"
  /\ last_outcome' = "none"
  /\ single_step' = NoSingleStep
  /\ UNCHANGED <<seqVars, results, temporary_tables_, oomVars, wuVars, annVars, table_data,
                 result_data, sqVars, sortVars>>

\* The body executeRelAlgStep is called for: that of step i of the sequence,
\* or the one descriptor of the sequence executeRelAlgQuerySingleStep builds
\* for the source of a Sort.
StepBody == IF single_step.via_source THEN single_step.executed ELSE descs_[step_i + 1]

\* The class of a node as the dynamic_casts of the executor see it.
BodyKind(n) == IF n \in aggregates THEN "Aggregate" ELSE plan[n].kind

\* The loop test and the call of executeRelAlgStep(seq, i, co, eo), up to
\* the point where the executor is invoked for the body of step i.  (A
\* body for which isNop() is true goes to handleNop instead.)
StepBegin ==
  /\ exec_pc = "loop"
  /\ step_i < exec_desc_count => StepBody \notin nops
  /\ IF ~(step_i < exec_desc_count)
       THEN exec_pc' = "done"
       ELSE IF BodyKind(StepBody) \in HandledKinds
              THEN exec_pc' = "step"
              ELSE exec_pc' = "aborted"
  /\ attempt' = "first"
  /\ UNCHANGED <<seqVars, config, exec_desc_count, step_i, results, temporary_tables_,
                 last_outcome, oomVars, wuVars, aggVars, sqVars, sortVars>>

\* A failed attempt that wipes the results stored by the steps before it.
ResultsAfterAttemptWiped(res, i, outcome) ==
  IF outcome \in {"ok", "ok_push_down"} THEN res \cup {i} ELSE {}

\* exec_desc.setResult(...) in executeRelAlgStep: it is reached when the
\* executor returned, and not when it threw.
ResultsAfterAttempt(res, i, outcome) ==
  IF outcome \in {"ok", "ok_push_down"} THEN res \cup {i} ELSE res

\* The device the attempt under way compiles for: co.device_type, or CPU
\* for the attempt made with makeCpuOnly(co).
AttemptDevice == IF attempt = "cpu" THEN "CPU" ELSE config.device_type

\* An executeRelAlgStep that publishes under the step's key whatever the
\* executor answered.
TablesAfterAttemptEager(tables, body, outcome) == tables \cup {-getId(body)}

\* addTemporaryTable(-body->getId(), ...) in executeRelAlgStep: it is reached
\* when the executor returned a result that does not have filter push-down
\* enabled.
TablesAfterAttempt(tables, body, outcome) ==
  IF outcome = "ok" THEN tables \cup {-getId(body)} ELSE tables

\* The CHECKs of addTemporaryTable(table_id, result): the key is negative
\* and temporary_tables_ holds no entry under it yet.
CanAddTemporaryTable(tables, table_id) == table_id < 0 /\ table_id \notin tables

\* The executor answers.  executeRelAlgStep stores the result in the
\* descriptor and publishes it when the executor returned, and throws
\* otherwise; the catch clauses of the loop re-issue the step or rethrow.
\* QueryMustRunOnCpu is raised by attempts that compile for GPU only.
StepEnd(outcome) ==
  /\ exec_pc = "step"
  /\ outcome = "ok_push_down" => BodyKind(StepBody) \in PushDownKinds
  /\ outcome = "QueryMustRunOnCpu" => AttemptDevice = "GPU"
  /\ last_outcome' = outcome
  /\ LET body == StepBody
         after == AfterAttempt(config, BodyKind(body), attempt, outcome)
     IN /\ results' = ResultsAfterAttempt(results, step_i, outcome)
        /\ result_data' =
             LET kept == {entry \in result_data : entry.step \in results'}
             IN IF step_i \in results' /\ outcome \in {"ok", "ok_push_down"}
                  THEN {entry \in kept : entry.step # step_i}
                         \cup {[step |-> step_i, data |-> body]}
                  ELSE kept
        /\ temporary_tables_' = TablesAfterAttempt(temporary_tables_, body, outcome)
        /\ table_data' =
             IF temporary_tables_' # temporary_tables_
               THEN table_data \cup {[key |-> -getId(body), data |-> body]}
               ELSE table_data
        /\ step_i' = IF after = "next" THEN step_i + 1 ELSE step_i
        /\ attempt' = CASE after = "retry_cpu" -> "cpu"
                        [] after = "retry_extern" -> "extern"
                        [] OTHER -> attempt
        /\ exec_pc' = CASE outcome = "ok"
                             /\ ~CanAddTemporaryTable(temporary_tables_, -getId(body)) ->
                               "aborted"
                        [] after = "next" -> "loop"
                        [] after = "throw" -> "failed"
                        [] after = "abort" -> "aborted"
                        [] OTHER -> "step"
  /\ UNCHANGED <<seqVars, config, exec_desc_count, oomVars, wuVars, annVars, single_step, sqVars, sortVars>>

(***************************************************************************)
(* RelAlgExecutor::executeWorkUnit (execute_and_handle_errors),            *)
(* handleOutOfMemoryRetry and handlePersistentError                        *)
(***************************************************************************)
\* Largest value iteration_ctr is counted to.  The loop only tests
\* iteration_ctr > 1, so the values above 1 all behave alike: the count goes
\* on from 2 when it passes this value, which keeps every iteration a change
\* of state.
MaxIterationCtr == 3

\* Error codes of QueryExecutionError: 0 stands for an executor call that
\* returned, a negative code for "ran out of slots"; of the codes
\* getErrorDescription lists four are kept, and one it does not list.
NoErrorCode == 0
OutOfSlotsCode == -1
ERR_DIV_BY_ZERO == 1
ERR_OUT_OF_GPU_MEM == 2
ERR_OUT_OF_TIME == 9
ERR_INTERRUPTED == 10
UnlistedCode == 99

ErrorCodes ==
  {OutOfSlotsCode, ERR_DIV_BY_ZERO, ERR_OUT_OF_GPU_MEM, ERR_OUT_OF_TIME, ERR_INTERRUPTED,
   UnlistedCode}

\* [code, description] of a listed code, or none.
getErrorDescription(error_code) ==
  CASE error_code = ERR_DIV_BY_ZERO ->
         [code |-> "ERR_DIV_BY_ZERO", description |-> "Division by zero"]
    [] error_code = ERR_OUT_OF_GPU_MEM ->
         [code |-> "ERR_OUT_OF_GPU_MEM",
          description |->
            "Query couldn't keep the entire working set of columns in GPU memory"]
    [] error_code = ERR_OUT_OF_TIME ->
         [code |-> "ERR_OUT_OF_TIME",
          description |-> "Query execution has exceeded the time limit"]
    [] error_code = ERR_INTERRUPTED ->
         [code |-> "ERR_INTERRUPTED", description |-> "Query execution has been interrupted"]
    [] OTHER -> [code |-> "", description |-> ""]

getErrorMessageFromCode(error_code) ==
  IF error_code < 0
    THEN "Ran out of slots in the query output buffer"
    ELSE LET errorInfo == getErrorDescription(error_code)
         IN IF errorInfo.code # ""
              THEN errorInfo.code \o ": " \o errorInfo.description
              ELSE "Other error: code " \o ToString(error_code)

\* handlePersistentError that lets every out-of-GPU-memory error pass.
handlePersistentErrorLenient(error_code, allow_cpu_retry) ==
  IF error_code = ERR_OUT_OF_GPU_MEM
    THEN NoError
    ELSE getErrorMessageFromCode(error_code)

\* handlePersistentError: what() of the runtime_error it throws, or NoError
\* when it returns.
handlePersistentError(error_code, allow_cpu_retry) ==
  IF error_code = ERR_OUT_OF_GPU_MEM
    THEN IF ~allow_cpu_retry
           THEN "Query ran out of GPU memory, unable to automatically retry on CPU"
           ELSE NoError
    ELSE getErrorMessageFromCode(error_code)

\* The executor is handed the guess by reference: a guess of 0 comes back as
\* the conservative guess it computed (the retry loop CHECKs that it is not
\* 0 after an out-of-slots error), any other guess as it was.
ConservativeGuess == 1

ExecutorGuess(g) == IF g = 0 THEN ConservativeGuess ELSE g

\* CompilationOptions, ExecutionOptions: the members the retries set.
CompilationOptions == [device_type : {"CPU", "GPU"}]

ExecutionOptions ==
  [allow_multifrag : BOOLEAN, just_explain : BOOLEAN,
   find_push_down_candidates : BOOLEAN, just_calcite_explain : BOOLEAN]

\* makeCpuOnly that hands the options back as they came.
makeCpuOnlyKeepsDevice(co) == co

\* CompilationOptions::makeCpuOnly: every member is copied but the device.
makeCpuOnly(co) == [co EXCEPT !.device_type = "CPU"]

\* The lambda of handleOutOfMemoryRetry that initialises eo_no_multifrag.
eo_no_multifrag(eo) ==
  [eo EXCEPT !.allow_multifrag = FALSE, !.just_explain = FALSE,
             !.find_push_down_candidates = FALSE, !.just_calcite_explain = FALSE]

\* executor_->executeWorkUnit(max_groups_buffer_entry_guess, ..., ra_exe_unit,
\* co, eo, ...) as made by "first", "single_frag" or "cpu".
ExecutorCall(by, guess_in, co, eo, use_bump_allocator) ==
  [by |-> by, max_groups_buffer_entry_guess |-> guess_in, co |-> co, eo |-> eo,
   use_bump_allocator |-> use_bump_allocator]

NoOomIn ==
  [co |-> [device_type |-> "CPU"],
   eo |-> [allow_multifrag |-> FALSE, just_explain |-> FALSE,
           find_push_down_candidates |-> FALSE, just_calcite_explain |-> FALSE],
   use_bump_allocator |-> FALSE]

\* The out-of-slots branch that throws only under the watchdog.
OutOfSlotsIsFatalByWatchdogOnly(watchdog, ctr) == watchdog

\* The out-of-slots branch that throws only once the iterations are used up.
OutOfSlotsIsFatalByIterationOnly(watchdog, ctr) == ctr > 1

\* if (config_.exec.watchdog.enable || iteration_ctr > 1) throw ...
OutOfSlotsIsFatal(watchdog, ctr) == watchdog \/ ctr > 1

OomInit ==
  /\ oom_cfg = [watchdog |-> FALSE, allow_cpu_retry |-> FALSE, has_ndv_estimation |-> FALSE]
  /\ oom_pc = "idle"
  /\ oom_error = NoError
  /\ oom_code = NoErrorCode
  /\ guess = 0
  /\ iteration_ctr = -1
  /\ doublings = 0
  /\ result_from = "none"
  /\ oom_in = NoOomIn
  /\ oom_call = ExecutorCall("none", 0, NoOomIn.co, NoOomIn.eo, FALSE)

\* execute_and_handle_errors up to its call of executor_->executeWorkUnit.
OomStart ==
  /\ oom_pc = "idle"
  /\ \E cfg \in [watchdog : BOOLEAN, allow_cpu_retry : BOOLEAN,
                  has_ndv_estimation : BOOLEAN],
        max_groups_buffer_entry_guess_in \in {0, ConservativeGuess},
        co \in CompilationOptions, eo \in ExecutionOptions,
        use_bump_allocator \in BOOLEAN :
       /\ oom_cfg' = cfg
       /\ guess' = max_groups_buffer_entry_guess_in
       /\ oom_in' = [co |-> co, eo |-> eo, use_bump_allocator |-> use_bump_allocator]
       /\ oom_call' = ExecutorCall("first", max_groups_buffer_entry_guess_in, co, eo,
                                   use_bump_allocator)
  /\ oom_pc' = "first"
  /\ UNCHANGED <<seqVars, execVars, wuVars, aggVars, oom_error, oom_code, iteration_ctr,
                 doublings, result_from, sqVars, sortVars>>

\* An executor call of the loop: ra_exe_unit is the copy of the unit whose
\* use_bump_allocator was cleared, co_cpu is makeCpuOnly(co).
CpuCall(guess_in) ==
  ExecutorCall("cpu", guess_in, makeCpuOnly(oom_in.co), eo_no_multifrag(oom_in.eo), FALSE)

\* The executor call of the multifrag branch: co itself, eo_no_multifrag and
\* the guess as the failing call left it.
SingleFragCall(guess_in) ==
  ExecutorCall("single_frag", guess_in, oom_in.co, eo_no_multifrag(oom_in.eo), FALSE)

\* The statements of handleOutOfMemoryRetry between the multifrag branch and
\* the first executor call of the loop: the guess is reset, iteration_ctr
\* becomes 0 and the executor is called with co_cpu.
EnterCpuLoop ==
  /\ guess' = 0
  /\ iteration_ctr' = 0
  /\ oom_pc' = "cpu"
  /\ oom_error' = NoError
  /\ oom_call' = CpuCall(0)

\* The first executor call ends: execute_and_handle_errors returns the
\* result, or catches the QueryExecutionError and, unless it throws, runs
\* handleOutOfMemoryRetry up to its first executor call.
FirstAttemptEnds(code, was_multifrag_kernel_launch) ==
  /\ oom_pc = "first"
  /\ oom_code' = code
  /\ IF code = NoErrorCode
       THEN /\ oom_pc' = "returned" /\ result_from' = "first"
            /\ guess' = ExecutorGuess(guess)
            /\ UNCHANGED <<oom_error, iteration_ctr, oom_call>>
       ELSE /\ result_from' = result_from
            /\ IF ~oom_cfg.has_ndv_estimation /\ code < 0
                 THEN /\ oom_pc' = "cardinality"
                      /\ guess' = ExecutorGuess(guess)
                      /\ UNCHANGED <<oom_error, iteration_ctr, oom_call>>
                 ELSE IF handlePersistentError(code, oom_cfg.allow_cpu_retry) # NoError
                        THEN /\ oom_pc' = "thrown"
                             /\ oom_error' = handlePersistentError(code, oom_cfg.allow_cpu_retry)
                             /\ guess' = ExecutorGuess(guess)
                             /\ UNCHANGED <<iteration_ctr, oom_call>>
                        ELSE IF was_multifrag_kernel_launch
                               THEN /\ oom_pc' = "single_frag"
                                    /\ guess' = ExecutorGuess(guess)
                                    /\ oom_call' = SingleFragCall(ExecutorGuess(guess))
                                    /\ UNCHANGED <<oom_error, iteration_ctr>>
                               ELSE EnterCpuLoop
  /\ UNCHANGED <<seqVars, execVars, wuVars, aggVars, oom_cfg, doublings, oom_in, sqVars, sortVars>>

\* The kernel-per-fragment executor call ends.  There is no return after
\* result = ...: control leaves the if statement and goes on to the loop.
SingleFragAttemptEnds(code) ==
  /\ oom_pc = "single_frag"
  /\ oom_code' = code
  /\ IF code = NoErrorCode
       THEN result_from' = "single_frag" /\ EnterCpuLoop
       ELSE /\ result_from' = result_from
            /\ IF handlePersistentError(code, oom_cfg.allow_cpu_retry) # NoError
                 THEN /\ oom_pc' = "thrown"
                      /\ oom_error' = handlePersistentError(code, oom_cfg.allow_cpu_retry)
                      /\ guess' = ExecutorGuess(guess)
                      /\ UNCHANGED <<iteration_ctr, oom_call>>
                 ELSE EnterCpuLoop
  /\ UNCHANGED <<seqVars, execVars, wuVars, aggVars, oom_cfg, doublings, oom_in, sqVars, sortVars>>

\* "continue": iteration_ctr++ at the top of the loop and the next executor
\* call with co_cpu.
NextIteration ==
  /\ iteration_ctr' = IF iteration_ctr >= MaxIterationCtr THEN 2 ELSE iteration_ctr + 1
  /\ oom_pc' = "cpu"
  /\ oom_error' = NoError
  /\ oom_call' = CpuCall(guess')

\* An executor call of the while (true) loop ends.
CpuAttemptEnds(code) ==
  /\ oom_pc = "cpu"
  /\ oom_code' = code
  /\ LET g == ExecutorGuess(guess)
     IN IF code = NoErrorCode
          THEN /\ oom_pc' = "returned" /\ result_from' = "cpu"
               /\ guess' = g
               /\ UNCHANGED <<oom_error, iteration_ctr, doublings, oom_call>>
          ELSE /\ result_from' = result_from
               /\ IF code < 0
                    THEN IF g = 0
                           THEN /\ oom_pc' = "aborted"
                                /\ guess' = g
                                /\ UNCHANGED <<oom_error, iteration_ctr, doublings, oom_call>>
                           ELSE IF OutOfSlotsIsFatal(oom_cfg.watchdog, iteration_ctr)
                                  THEN /\ oom_pc' = "thrown"
                                       /\ oom_error' =
                                            "Query ran out of output slots in the result"
                                       /\ guess' = g
                                       /\ UNCHANGED <<iteration_ctr, doublings, oom_call>>
                                  ELSE /\ guess' = g * 2
                                       /\ doublings' = doublings + 1
                                       /\ NextIteration
                    ELSE /\ guess' = g
                         /\ doublings' = doublings
                         /\ IF handlePersistentError(code, oom_cfg.allow_cpu_retry) # NoError
                              THEN /\ oom_pc' = "thrown"
                                   /\ oom_error' =
                                        handlePersistentError(code, oom_cfg.allow_cpu_retry)
                                   /\ UNCHANGED <<iteration_ctr, oom_call>>
                              ELSE NextIteration
  /\ UNCHANGED <<seqVars, execVars, wuVars, aggVars, oom_cfg, oom_in, sqVars, sortVars>>

OomNext ==
  \/ OomStart
  \/ \E code \in ErrorCodes \cup {NoErrorCode}, was_multifrag_kernel_launch \in BOOLEAN :
       FirstAttemptEnds(code, was_multifrag_kernel_launch)
  \/ \E code \in ErrorCodes \cup {NoErrorCode} : SingleFragAttemptEnds(code)
  \/ \E code \in ErrorCodes \cup {NoErrorCode} : CpuAttemptEnds(code)

(***************************************************************************)
(* RelAlgExecutor::executeWorkUnit: the filtered count, the cardinality    *)
(* cache and the NDV estimation around execute_and_handle_errors           *)
(***************************************************************************)
\* Fingerprints of execution units (ra_exec_unit_desc_for_caching).
CacheKeys == {"k1", "k2"}

\* second of a lookup that found nothing.
NoCard == -1

\* What getNDVEstimation may return: no estimate, or one group.
NdvEstimations == {0, 1}

\* std::min(groups_approx_upper_bound(table_infos),
\* g_estimator_failure_max_groupby_size), which is at least 1.
FallbackGuess == 1

\* max_groups_buffer_entry_guess of the work unit.
WorkUnitGuess == 0

\* A lookup that returns whatever entry the cache holds.
getCachedCardinalityAnyKey(cache, cache_key) ==
  IF cache = {}
    THEN [first |-> FALSE, second |-> NoCard, key |-> cache_key]
    ELSE LET entry == CHOOSE en \in cache : \A other \in cache : en.card >= other.card
         IN [first |-> TRUE, second |-> entry.card, key |-> entry.key]

\* Executor::getCachedCardinality: <found, value> of the entry stored under
\* cache_key; key is the fingerprint the returned entry was stored under.
getCachedCardinality(cache, cache_key) ==
  IF \E entry \in cache : entry.key = cache_key
    THEN LET entry == CHOOSE en \in cache : en.key = cache_key
         IN [first |-> TRUE, second |-> entry.card, key |-> entry.key]
    ELSE [first |-> FALSE, second |-> NoCard, key |-> cache_key]

\* Executor::addToCardinalityCache.
addToCardinalityCache(cache, cache_key, cache_value) ==
  {entry \in cache : entry.key # cache_key} \cup {[key |-> cache_key, card |-> cache_value]}

\* The estimate is stored whatever the call is for.
StoresEstimateAlways(just_validate, just_explain) == TRUE

\* if (!(eo.just_validate || eo.just_explain))
StoresEstimate(just_validate, just_explain) == ~(just_validate \/ just_explain)

\* An executor that raises CardinalityEstimationRequired whatever it is told.
ExecutorMayRaiseCardinalityAlways(has_cardinality_estimation) == TRUE

\* The executor raises CardinalityEstimationRequired itself only when it is
\* told that there is no cardinality estimation.
ExecutorMayRaiseCardinality(has_cardinality_estimation) == ~has_cardinality_estimation

\* What handleOutOfMemoryRetry ends with when it ends.
OomRetryOutcomes ==
  {[pc |-> "returned", error |-> NoError],
   [pc |-> "thrown", error |-> "Query ran out of output slots in the result"]}

\* execute_and_handle_errors as one step: code is the error code its
\* executor call ends with, retry what handleOutOfMemoryRetry ends with if
\* it is reached.
execute_and_handle_errors(code, retry, has_ndv_estimation, allow_cpu_retry) ==
  IF code = NoErrorCode
    THEN [pc |-> "returned", error |-> NoError]
    ELSE IF ~has_ndv_estimation /\ code < 0
           THEN [pc |-> "cardinality", error |-> NoError]
           ELSE IF handlePersistentError(code, allow_cpu_retry) # NoError
                  THEN [pc |-> "thrown", error |-> handlePersistentError(code, allow_cpu_retry)]
                  ELSE retry

NoCall == [guess |-> 0, has_cardinality_estimation |-> FALSE, has_ndv_estimation |-> FALSE,
           estimated |-> FALSE]

NoWorkUnit ==
  [cache_key |-> "k1", just_validate |-> FALSE, just_explain |-> FALSE,
   allow_cpu_retry |-> FALSE, small_groups |-> FALSE, filtered_count |-> FALSE]

WuInit ==
  /\ cardinality_cache = {}
  /\ wu_pc = "idle"
  /\ wu_in = NoWorkUnit
  /\ wu_call = NoCall
  /\ wu_error = NoError
  /\ cached_cardinality = [first |-> FALSE, second |-> NoCard, key |-> "k1"]
  /\ lookups = 0
  /\ ndv_ran = FALSE
  /\ executor_code = NoErrorCode
  /\ hit_at_start = FALSE

\* The try block of executeWorkUnit up to the executor call of
\* execute_and_handle_errors: the cache is looked up under cache_key.
EnterTry ==
  LET cached == getCachedCardinality(cardinality_cache, wu_in'.cache_key)
  IN /\ cached_cardinality' = cached
     /\ lookups' = 1
     /\ wu_call' = IF cached.first /\ cached.second >= 0
                     THEN [guess |-> cached.second, has_cardinality_estimation |-> TRUE,
                           has_ndv_estimation |-> FALSE, estimated |-> FALSE]
                     ELSE [guess |-> WorkUnitGuess,
                           has_cardinality_estimation |-> wu_in'.small_groups,
                           has_ndv_estimation |-> FALSE, estimated |-> FALSE]
     /\ wu_pc' = "try"

\* executeWorkUnit is called: filtered_count says that the scan limit is to
\* be taken from getFilteredCountAll, which is not called for just_explain.
WuStart ==
  /\ wu_pc \in {"idle", "returned", "thrown", "cardinality", "must_run_on_cpu"}
  /\ \E in \in [cache_key : CacheKeys, just_validate : BOOLEAN, just_explain : BOOLEAN,
                 allow_cpu_retry : BOOLEAN, small_groups : BOOLEAN,
                 filtered_count : BOOLEAN] :
       wu_in' = in
  /\ hit_at_start' = getCachedCardinality(cardinality_cache, wu_in'.cache_key).first
  /\ wu_error' = NoError
  /\ ndv_ran' = FALSE
  /\ executor_code' = NoErrorCode
  /\ IF wu_in'.filtered_count /\ ~wu_in'.just_explain
       THEN /\ wu_pc' = "preflight"
            /\ wu_call' = NoCall
            /\ lookups' = 0
            /\ UNCHANGED cached_cardinality
       ELSE EnterTry
  /\ UNCHANGED <<seqVars, execVars, oomVars, aggVars, cardinality_cache, sqVars, sortVars>>

\* The executor call of getFilteredCountAll ends: QueryMustRunOnCpu is
\* rethrown, any other exception is logged and std::nullopt returned, and
\* executeWorkUnit goes on.
FilteredCountEnds(must_run_on_cpu, code) ==
  /\ wu_pc = "preflight"
  /\ executor_code' = IF must_run_on_cpu THEN NoErrorCode ELSE code
  /\ IF must_run_on_cpu
       THEN /\ wu_pc' = "must_run_on_cpu"
            /\ UNCHANGED <<wu_call, cached_cardinality, lookups>>
       ELSE /\ UNCHANGED wu_in
            /\ EnterTry
  /\ UNCHANGED <<seqVars, execVars, oomVars, aggVars, cardinality_cache, wu_in, wu_error, ndv_ran,
                 hit_at_start, sqVars, sortVars>>

\* execute_and_handle_errors ends in the try block.  CardinalityEstimationRequired
\* is caught: the cache is looked up again, and on a miss getNDVEstimation
\* is run (ndv_throws when it throws) and the call repeated with the
\* estimated guess.
TryEnds(raised, code, retry, ndv, ndv_throws) ==
  /\ wu_pc = "try"
  /\ raised => ExecutorMayRaiseCardinality(wu_call.has_cardinality_estimation)
  /\ LET out == IF raised
                  THEN [pc |-> "cardinality", error |-> NoError]
                  ELSE execute_and_handle_errors(code, retry, wu_call.has_ndv_estimation,
                                                 wu_in.allow_cpu_retry)
         cached == getCachedCardinality(cardinality_cache, wu_in.cache_key)
     IN IF out.pc # "cardinality"
          THEN /\ wu_pc' = out.pc
               /\ wu_error' = out.error
               /\ UNCHANGED <<wu_call, cached_cardinality, lookups, ndv_ran>>
          ELSE /\ cached_cardinality' = cached
               /\ lookups' = lookups + 1
               /\ IF cached.first /\ cached.second >= 0
                    THEN /\ wu_call' = [guess |-> cached.second,
                                        has_cardinality_estimation |-> TRUE,
                                        has_ndv_estimation |-> TRUE, estimated |-> FALSE]
                         /\ wu_pc' = "catch"
                         /\ UNCHANGED <<wu_error, ndv_ran>>
                    ELSE /\ ndv_ran' = TRUE
                         /\ IF ndv_throws
                              THEN /\ wu_pc' = "thrown"
                                   /\ wu_error' = "Cardinality estimation failed"
                                   /\ UNCHANGED wu_call
                              ELSE /\ wu_call' =
                                        [guess |-> IF ndv > 0 THEN 2 * ndv ELSE FallbackGuess,
                                         has_cardinality_estimation |-> TRUE,
                                         has_ndv_estimation |-> TRUE, estimated |-> TRUE]
                                   /\ wu_pc' = "catch"
                                   /\ UNCHANGED wu_error
  /\ executor_code' = IF raised THEN NoErrorCode ELSE code
  /\ UNCHANGED <<seqVars, execVars, oomVars, aggVars, cardinality_cache, wu_in, hit_at_start, sqVars, sortVars>>

\* execute_and_handle_errors ends in the catch clause, where nothing is
\* caught; after the call with the estimated guess has returned the
\* estimate is stored.
CatchEnds(raised, code, retry) ==
  /\ wu_pc = "catch"
  /\ raised => ExecutorMayRaiseCardinality(wu_call.has_cardinality_estimation)
  /\ LET out == IF raised
                  THEN [pc |-> "cardinality", error |-> NoError]
                  ELSE execute_and_handle_errors(code, retry, wu_call.has_ndv_estimation,
                                                 wu_in.allow_cpu_retry)
     IN /\ wu_pc' = out.pc
        /\ wu_error' = out.error
        /\ cardinality_cache' =
             IF /\ out.pc = "returned"
                /\ wu_call.estimated
                /\ StoresEstimate(wu_in.just_validate, wu_in.just_explain)
               THEN addToCardinalityCache(cardinality_cache, wu_in.cache_key, wu_call.guess)
               ELSE cardinality_cache
  /\ executor_code' = IF raised THEN NoErrorCode ELSE code
  /\ UNCHANGED <<seqVars, execVars, oomVars, aggVars, wu_in, wu_call, cached_cardinality, lookups,
                 ndv_ran, hit_at_start, sqVars, sortVars>>

WuNext ==
  \/ WuStart
  \/ \E must_run_on_cpu \in BOOLEAN, code \in ErrorCodes \cup {NoErrorCode} :
       FilteredCountEnds(must_run_on_cpu, code)
  \/ \E raised \in BOOLEAN, code \in ErrorCodes \cup {NoErrorCode},
        retry \in OomRetryOutcomes, ndv \in NdvEstimations, ndv_throws \in BOOLEAN :
       TryEnds(raised, code, retry, ndv, ndv_throws)
  \/ \E raised \in BOOLEAN, code \in ErrorCodes \cup {NoErrorCode},
        retry \in OomRetryOutcomes :
       CatchEnds(raised, code, retry)

\* No plan is involved: the sequence variables stay as constructed for none.
OomSpecInit == SeqInit(1) /\ ExecInit /\ OomInit /\ WuInit /\ AggInit /\ SqInit /\ SortInit

\* One work unit is executed by execute_and_handle_errors.
OomSpec == OomSpecInit /\ [][OomNext]_vars

\* The executor answers every call.
OomFairSpec == OomSpecInit /\ [][OomNext]_vars /\ WF_vars(OomNext)

WuSpecInit == SeqInit(1) /\ ExecInit /\ OomInit /\ WuInit /\ AggInit /\ SqInit /\ SortInit

\* Work units are executed by executeWorkUnit one after the other, the
\* cardinality cache living on between them.
WuSpec == WuSpecInit /\ [][WuNext]_vars

Next ==
  \/ PlanNode
  \/ \E build_sequence \in BOOLEAN : Construct(build_sequence)
  \/ NextStep

Init == SeqInit(MaxNodes) /\ ExecInit /\ OomInit /\ WuInit /\ AggInit /\ SqInit /\ SortInit

Spec == Init /\ [][Next]_vars

LazyNext ==
  \/ PlanNode
  \/ Construct(FALSE)
  \/ NextStep

LazyInit == SeqInit(MaxLazyNodes) /\ ExecInit /\ OomInit /\ WuInit /\ AggInit /\ SqInit /\ SortInit

\* Lazily built sequences: the constructor does not call next().
LazySpec == LazyInit /\ [][LazyNext]_vars

\* The catch clause of executeRelAlgQuery: QueryMustRunOnCpu left
\* executeRelAlgQueryNoRetry and allow_cpu_retry is set, so the query is run
\* again with makeCpuOnly(co): executeRelAlgQueryNoRetry builds the sequence
\* of the same plan anew (no descriptor of the new sequence holds a result)
\* and calls executeRelAlgSeq, which empties temporary_tables_ and starts at
\* step 0.  The second run is outside the try block.
QueryCpuRetry ==
  /\ exec_pc = "failed" /\ last_outcome = "QueryMustRunOnCpu" /\ config.entry = "Seq"
  /\ \E allow_cpu_retry \in BOOLEAN : allow_cpu_retry
  /\ config' = [config EXCEPT !.device_type = "CPU", !.with_existing_temp_tables = FALSE]
  /\ temporary_tables_' = TablesAtStart(temporary_tables_, FALSE)
  /\ results' = {}
  /\ step_i' = 0
  /\ attempt' = "first"
  /\ last_outcome' = "none"
  /\ IF get_descriptor_count(config.just_explain) = Aborted
       THEN exec_pc' = "aborted" /\ exec_desc_count' = 0
       ELSE exec_pc' = "loop" /\ exec_desc_count' = get_descriptor_count(config.just_explain)
  /\ table_data' = {}
  /\ result_data' = {}
  /\ UNCHANGED <<seqVars, oomVars, wuVars, annVars, single_step, sqVars, sortVars>>

(***************************************************************************)
(* Aggregates: isNop()/handleNop and executeRelAlgQuerySingleStep          *)
(***************************************************************************)
MaxAggNodes == 3

\* The plan handed over is told which of its nodes are Aggregates, which of
\* those are no-ops, and which of its Sorts have a collation.
Annotate ==
  /\ pc = "new" /\ aggregates = {} /\ collations = {}
  /\ \E aggs \in SUBSET {n \in 1..Len(plan) : plan[n].kind = "Project" /\ ~plan[n].window},
        sorts \in SUBSET {n \in 1..Len(plan) : plan[n].kind = "Sort"} :
       /\ aggs \cup sorts # {}
       /\ aggregates' = aggs
       /\ collations' = sorts
       /\ \E marked \in SUBSET aggs : nops' = marked
  /\ UNCHANGED <<seqVars, execVars, oomVars, wuVars, single_step, table_data, result_data, sqVars, sortVars>>

\* A handleNop that gives the step a result of its own.
handleNopResultOwn(data, input, body) == body

\* handleNop: what the step's descriptor and its entry are set to is what
\* the entry of the input holds.
handleNopResult(data, input, body) ==
  (CHOOSE entry \in data : entry.key = -getId(input)).data

\* executeRelAlgStep for a body whose isNop() is true: handleNop(exec_desc)
\* and return.  frag_count is getFragCount() of the input's entry.
NopStep(frag_count) ==
  /\ exec_pc = "loop" /\ step_i < exec_desc_count /\ StepBody \in nops
  /\ LET body == StepBody
         input == plan[body].inputs[1]
         copied == handleNopResult(table_data, input, body)
     IN IF \/ body \notin aggregates
           \/ Len(plan[body].inputs) # 1
           \/ -getId(input) \notin temporary_tables_
           \/ frag_count # 1
           \/ ~CanAddTemporaryTable(temporary_tables_, -getId(body))
          THEN /\ exec_pc' = "aborted"
               /\ UNCHANGED <<step_i, results, temporary_tables_, last_outcome, table_data,
                              result_data>>
          ELSE /\ results' = results \cup {step_i}
               /\ result_data' = {entry \in result_data : entry.step # step_i}
                                   \cup {[step |-> step_i, data |-> copied]}
               /\ temporary_tables_' = temporary_tables_ \cup {-getId(body)}
               /\ table_data' = table_data \cup {[key |-> -getId(body), data |-> copied]}
               /\ step_i' = step_i + 1
               /\ last_outcome' = "nop"
               /\ exec_pc' = "loop"
  /\ attempt' = "first"
  /\ UNCHANGED <<seqVars, config, exec_desc_count, oomVars, wuVars, annVars, single_step, sqVars, sortVars>>

node_is_aggregate(ra, compound_aggregates) ==
  (plan[ra].kind = "Compound" /\ compound_aggregates) \/ ra \in aggregates

merge_type(body, compound_aggregates) ==
  IF node_is_aggregate(body, compound_aggregates) THEN "Reduce" ELSE "Union"

\* A single-step path that goes to the source when there is nothing to sort.
SortThroughSourceInverted(has_collation, source_is_aggregate) ==
  ~has_collation /\ ~source_is_aggregate

\* if (sort->collationCount() || node_is_aggregate(source)): only the input
\* of the Sort is executed.
SortThroughSource(has_collation, source_is_aggregate) ==
  has_collation \/ source_is_aggregate

\* A single step that always reports on the body of the step.
SingleStepReportedStepBody(body, executed) == body

\* The node whose merge type and id are returned: the one executed.
SingleStepReported(body, executed) == executed

\* executeRelAlgQuerySingleStep(seq, step_idx, co, eo) up to the first
\* executeRelAlgStep call of the executeRelAlgSubSeq it makes: for a Sort with
\* a collation or an aggregate source that is a sequence of one descriptor
\* built for the source, and the interval [step_idx, step_idx + 1) of seq
\* otherwise.  check_sort_node_source_constraint throws for a Sort below a Sort.
SingleStep(step_idx) ==
  /\ pc = "ok" /\ last_next = "none" /\ exec_pc \in {"idle", "done"}
  /\ step_idx < Len(descs_)
  /\ \E cfg \in [entry : {"SingleStep"}, device_type : {"GPU", "CPU"},
                  allow_query_step_cpu_retry : BOOLEAN, enable_interop : {FALSE},
                  just_explain : {FALSE}, compound_aggregates : BOOLEAN,
                  with_existing_temp_tables : {TRUE}] :
       LET body == descs_[step_idx + 1]
           sort == plan[body].kind = "Sort"
           source == plan[body].inputs[1]
           via_source == /\ sort
                         /\ SortThroughSource(body \in collations,
                                              node_is_aggregate(source, cfg.compound_aggregates))
           executed == IF via_source THEN source ELSE body
           reported == SingleStepReported(body, executed)
       IN /\ config' = cfg
          /\ IF sort /\ plan[source].kind = "Sort"
               THEN /\ exec_pc' = "failed"
                    /\ single_step' = NoSingleStep
                    /\ UNCHANGED <<step_i, exec_desc_count, results, result_data>>
               ELSE /\ exec_pc' = "loop"
                    /\ single_step' =
                         [body |-> body, executed |-> executed,
                          merge_type |-> merge_type(reported, cfg.compound_aggregates),
                          node_id |-> getId(reported), via_source |-> via_source]
                    /\ step_i' = IF via_source THEN 0 ELSE step_idx
                    /\ exec_desc_count' = IF via_source THEN 1 ELSE step_idx + 1
                    /\ results' = IF via_source THEN {} ELSE results
                    /\ result_data' = IF via_source THEN {} ELSE result_data
  /\ attempt' = "first"
  /\ last_outcome' = "none"
  /\ UNCHANGED <<seqVars, temporary_tables_, oomVars, wuVars, annVars, table_data, sqVars, sortVars>>

AggNext ==
  \/ PlanNode
  \/ Annotate
  \/ Construct(TRUE)
  \/ ExecStart
  \/ \E step_idx \in 0..(MaxAggNodes - 1) : SingleStep(step_idx)
  \/ StepBegin
  \/ \E frag_count \in {1, 2} : NopStep(frag_count)
  \/ \E outcome \in Outcomes : StepEnd(outcome)

AggSpecInit == SeqInit(MaxAggNodes) /\ ExecInit /\ OomInit /\ WuInit /\ AggInit /\ SqInit /\ SortInit

\* A plan with Aggregates and Sorts is sequenced and executed, as a whole
\* or one step at a time.
AggSpec == AggSpecInit /\ [][AggNext]_vars

(***************************************************************************)
(* ResultSet: limit, offset and the cached row count; executeSort          *)
(***************************************************************************)
MaxRows == 3
MaxLimit == 2

MinOf(a, b) == IF a < b THEN a ELSE b

get_truncated_row_count(total_row_count, limit, offset) ==
  IF total_row_count < offset
    THEN 0
    ELSE IF limit # 0
           THEN MinOf(total_row_count - offset, limit)
           ELSE total_row_count - offset

\* rowCountImpl.  binSearchRowCount and parallelRowCount count the entries
\* and truncate; the loop over getNextRowUnlocked (the iterator is not part
\* of this file) stops at keep_first_ rows past the drop_first_ skipped.
rowCountImpl(rs) ==
  IF rs.just_explain_
    THEN 1
    ELSE IF rs.permutation_ # 0
           THEN get_truncated_row_count(rs.permutation_, rs.keep_first_, rs.drop_first_)
           ELSE IF ~rs.storage_
                  THEN 0
                  ELSE get_truncated_row_count(rs.entries, rs.keep_first_, rs.drop_first_)

\* A row-count cache that is never reset.
invalidateCachedRowCountNever(rs) == rs

invalidateCachedRowCount(rs) ==
  [rs EXCEPT !.cached_row_count_ = uninitialized_cached_row_count]

keepFirstN(rs, n) == [invalidateCachedRowCount(rs) EXCEPT !.keep_first_ = n]

dropFirstN(rs, n) == [invalidateCachedRowCount(rs) EXCEPT !.drop_first_ = n]

\* rowCount(): the ResultSet it leaves; what it returns is cached_row_count_ of that.
rowCount(rs) ==
  IF rs.cached_row_count_ # uninitialized_cached_row_count
    THEN rs
    ELSE [rs EXCEPT !.cached_row_count_ = rowCountImpl(rs)]

\* ResultSet::sort(order_entries, top_n, executor): nothing without storage;
\* the radix sort leaves no permutation; otherwise permutation_ holds the
\* non-empty entries, the first top_n of them when top_n is not 0.
sort(rs, top_n, radix) ==
  IF ~rs.storage_
    THEN rs
    ELSE [invalidateCachedRowCount(rs) EXCEPT
            !.permutation_ = IF radix
                               THEN 0
                               ELSE IF top_n = 0 THEN rs.entries ELSE MinOf(rs.entries, top_n)]

\* What executeWorkUnit hands back for the source: a ResultSet with no
\* limit and no offset, on which rowCount() may have been called.
SourceResult(has_storage, n, counted, explain) ==
  LET fresh == [EmptyResultSet EXCEPT !.storage_ = has_storage /\ ~explain,
                                      !.entries = IF has_storage /\ ~explain THEN n ELSE 0,
                                      !.just_explain_ = explain]
  IN IF counted THEN rowCount(fresh) ELSE fresh

\* bool ResultSet::definitelyHasNoRows()
definitelyHasNoRows(rs) == (~rs.storage_ /\ ~rs.just_explain_) \/ rs.cached_row_count_ = 0

\* execute_sort_query of executeSort past executeWorkUnit, for a source
\* result without pushed-down filters: the rows are sorted only under a
\* collation, then dropFirstN and keepFirstN are applied.
executeSortRows(in, rows_to_sort, just_explain, speculative_top_n, radix) ==
  LET sorts == /\ in.collation_count # 0
               /\ ~definitelyHasNoRows(rows_to_sort)
               /\ ~speculative_top_n
      top_n == IF in.limit = 0 THEN 0 ELSE in.limit + in.offset
      sorted == IF sorts THEN sort(rows_to_sort, top_n, radix) ELSE rows_to_sort
      dropped == IF in.limit # 0 \/ in.offset # 0 THEN dropFirstN(sorted, in.offset) ELSE sorted
      kept == IF (in.limit # 0 \/ in.offset # 0) /\ in.limit # 0
                THEN keepFirstN(dropped, in.limit)
                ELSE dropped
  IN IF just_explain
       THEN [rows |-> rows_to_sort,
             ran |-> [entry |-> "step", executed |-> "sort", rows_sorted |-> FALSE,
                      dropped |-> FALSE, kept |-> FALSE]]
       ELSE [rows |-> kept,
             ran |-> [entry |-> "step", executed |-> "sort", rows_sorted |-> sorts,
                      dropped |-> in.limit # 0 \/ in.offset # 0,
                      kept |-> (in.limit # 0 \/ in.offset # 0) /\ in.limit # 0]]

SortNodes ==
  [collation_count : {0, 1}, limit : 0..MaxLimit, offset : 0..MaxLimit,
   source_aggregate : BOOLEAN]

\* executeRelAlgStep for a Sort body: executeSort(sort, co, eo, queue_time_ms).
\* The execution of a Sort step starts from a ResultSet of its own, so the
\* executions of a behaviour do not depend on one another: one is followed.
ExecuteSort ==
  /\ sort_ran.executed = "none"
  /\ \E in \in SortNodes, has_storage \in BOOLEAN, n \in 0..MaxRows, counted \in BOOLEAN,
        just_explain \in BOOLEAN, speculative_top_n \in BOOLEAN, radix \in BOOLEAN :
       LET source_result == SourceResult(has_storage, n, counted, just_explain)
           done == executeSortRows(in, source_result, just_explain, speculative_top_n, radix)
       IN /\ sort_in' = in
          /\ result_set' = done.rows
          /\ sort_ran' = done.ran
  /\ returned_row_count' = NoRowCount
  /\ UNCHANGED <<seqVars, execVars, oomVars, wuVars, aggVars, sqVars>>

\* executeRelAlgQuerySingleStep for a step whose body is a Sort: the source
\* alone through a sequence of its own, or the Sort step itself.
SingleStepSort ==
  /\ sort_ran.executed = "none"
  /\ \E in \in SortNodes, has_storage \in BOOLEAN, n \in 0..MaxRows, counted \in BOOLEAN,
        speculative_top_n \in BOOLEAN, radix \in BOOLEAN :
       LET source_result == SourceResult(has_storage, n, counted, FALSE)
           done == executeSortRows(in, source_result, FALSE, speculative_top_n, radix)
       IN /\ sort_in' = in
          /\ IF SortThroughSource(in.collation_count # 0, in.source_aggregate)
               THEN /\ result_set' = source_result
                    /\ sort_ran' = [NoSortRan EXCEPT !.entry = "single", !.executed = "source"]
               ELSE /\ result_set' = done.rows
                    /\ sort_ran' = [done.ran EXCEPT !.entry = "single"]
  /\ returned_row_count' = NoRowCount
  /\ UNCHANGED <<seqVars, execVars, oomVars, wuVars, aggVars, sqVars>>

\* rowCount() on the ResultSet at hand.
RowCount ==
  /\ result_set' = rowCount(result_set)
  /\ returned_row_count' = result_set'.cached_row_count_
  /\ UNCHANGED <<seqVars, execVars, oomVars, wuVars, aggVars, sqVars, sort_in, sort_ran>>

KeepFirstN(n) ==
  /\ result_set' = keepFirstN(result_set, n)
  /\ returned_row_count' = NoRowCount
  /\ UNCHANGED <<seqVars, execVars, oomVars, wuVars, aggVars, sqVars, sort_in, sort_ran>>

DropFirstN(n) ==
  /\ result_set' = dropFirstN(result_set, n)
  /\ returned_row_count' = NoRowCount
  /\ UNCHANGED <<seqVars, execVars, oomVars, wuVars, aggVars, sqVars, sort_in, sort_ran>>

SortNext ==
  \/ ExecuteSort
  \/ SingleStepSort
  \/ RowCount
  \/ \E n \in 0..MaxLimit : KeepFirstN(n)
  \/ \E n \in 0..MaxLimit : DropFirstN(n)

SortSpecInit ==
  SeqInit(1) /\ ExecInit /\ OomInit /\ WuInit /\ AggInit /\ SqInit /\ SortInit

\* Sort steps are executed and the truncation of their results is changed
\* and counted.
SortSpec == SortSpecInit /\ [][SortNext]_vars

(***************************************************************************)
(* executeRelAlgQueryNoRetry: the subqueries are dispatched first          *)
(***************************************************************************)
MaxSubqueries == 2
MaxSubqueryNodes == 2

\* The keys a sub-engine may hold in its own temporary_tables_ when its
\* executeRelAlgSeq ends: the negated ids of the nodes of the subquery.
SubEngineKeys == {-1, -2}

SubqueryNeedsExecutionAlways(has_context_data) == TRUE

\* if (subquery_ra->hasContextData()) { continue; }
SubqueryNeedsExecution(has_context_data) == ~has_context_data

\* executeRelAlgQueryNoRetry up to the loop over getSubqueries(), called by
\* executeRelAlgQuery for the first run, for the run on CPU after
\* QueryMustRunOnCpu, or by a later executeRelAlgQuery on the same DAG.  The
\* sequence of the main plan (ed_seq) has been constructed.  The nodes of
\* the subqueries keep what earlier calls attached to them.
QueryNoRetry ==
  /\ pc = "ok" /\ last_next = "none"
  /\ \/ sq_pc = "idle" /\ exec_pc = "idle"
     \/ sq_pc = "thrown"
     \/ sq_pc = "dispatch" /\ exec_pc \in {"done", "failed"}
  /\ IF sq_pc = "idle"
       THEN \E n \in 0..MaxSubqueries : sq_count' = n
       ELSE UNCHANGED sq_count
  /\ sq_pc' = "dispatch"
  /\ sq_i' = 1
  /\ dispatched' = {}
  /\ skipped' = {}
  /\ exec_pc' = "idle"
  /\ UNCHANGED <<seqVars, config, exec_desc_count, step_i, attempt, results, temporary_tables_,
                 last_outcome, oomVars, wuVars, aggVars, context_data, node_result, sub_tables, sortVars>>

\* One turn of the loop up to the call of ra_executor.executeRelAlgSeq: a
\* subquery whose node has context data is passed over, for any other a
\* RelAlgExecutor of its own is constructed, whose temporary_tables_ is empty.
SubqueryDispatch ==
  /\ sq_pc = "dispatch" /\ sq_i <= sq_count
  /\ IF SubqueryNeedsExecution(sq_i \in context_data)
       THEN /\ sq_pc' = "sub"
            /\ sub_tables' = {}
            /\ dispatched' = dispatched \cup {sq_i}
            /\ UNCHANGED <<sq_i, skipped>>
       ELSE /\ sq_i' = sq_i + 1
            /\ skipped' = skipped \cup {sq_i}
            /\ UNCHANGED <<sq_pc, sub_tables, dispatched>>
  /\ UNCHANGED <<seqVars, execVars, oomVars, wuVars, aggVars, sq_count, context_data, node_result, sortVars>>

\* ra_executor.executeRelAlgSeq(subquery_seq, co, eo, 0) ends.  It has
\* written its temporary tables into the registry of the sub-engine.  When
\* it returns, the last step has called RaExecutionDesc::setResult, which
\* sets the context data of the subquery's node, and the loop hands the
\* result to the node with setResult; when it throws, the exception leaves
\* executeRelAlgQueryNoRetry.
SubqueryEnds(returns, keys) ==
  /\ sq_pc = "sub"
  /\ sub_tables' = keys
  /\ IF returns
       THEN /\ keys # {}
            /\ context_data' = context_data \cup {sq_i}
            /\ node_result' = node_result \cup {sq_i}
            /\ sq_i' = sq_i + 1
            /\ sq_pc' = "dispatch"
       ELSE /\ sq_pc' = "thrown"
            /\ UNCHANGED <<context_data, node_result, sq_i>>
  /\ UNCHANGED <<seqVars, execVars, oomVars, wuVars, aggVars, sq_count, dispatched, skipped, sortVars>>

\* return executeRelAlgSeq(ed_seq, co, eo, queue_time_ms) once the loop is
\* over; with_existing_temp_tables has its default, false.
MainSeqStart ==
  /\ sq_pc = "dispatch" /\ sq_i > sq_count /\ exec_pc = "idle"
  /\ ExecStart
  /\ ~config'.with_existing_temp_tables

SubqueryNext ==
  \/ PlanNode
  \/ Construct(TRUE)
  \/ QueryNoRetry
  \/ SubqueryDispatch
  \/ \E returns \in BOOLEAN, keys \in SUBSET SubEngineKeys : SubqueryEnds(returns, keys)
  \/ MainSeqStart
  \/ StepBegin
  \/ \E outcome \in Outcomes : StepEnd(outcome)

SubquerySpecInit ==
  SeqInit(MaxSubqueryNodes) /\ ExecInit /\ OomInit /\ WuInit /\ AggInit /\ SqInit /\ SortInit

\* A query with subqueries is run by executeRelAlgQueryNoRetry, possibly
\* several times.
SubquerySpec == SubquerySpecInit /\ [][SubqueryNext]_vars

ExecNext ==
  \/ PlanNode
  \/ Construct(TRUE)
  \/ ExecStart
  \/ ExecStartSubSeq
  \/ StepBegin
  \/ \E outcome \in Outcomes : StepEnd(outcome)
  \/ QueryCpuRetry

ExecSpecInit == SeqInit(MaxExecNodes) /\ ExecInit /\ OomInit /\ WuInit /\ AggInit /\ SqInit /\ SortInit

\* A plan is sequenced and executed by executeRelAlgSeq.
ExecSpec == ExecSpecInit /\ [][ExecNext]_vars

(***************************************************************************)
(* Vocabulary of the properties                                            *)
(***************************************************************************)
Vertices == 0..(NumVertices(graph_) - 1)

Range(q) == {q[i] : i \in 1..Len(q)}

\* The sequence exists and next() has returned none.
FullyBuilt == pc = "ok" /\ last_next = "none"

\* The constructor has run, whatever its outcome.
ConstructorRan == pc \in {"ok", "error", "abort"}

StepVertices == {v \in Vertices : graph_.verts[v + 1] \in Range(descs_)}

ScanVertices == {v \in Vertices : KindOf(plan, graph_, v) = "Scan"}

\* The vertices that feed a Sort vertex.
SortInputVertices ==
  {v \in Vertices : \E i \in 1..Len(graph_.edges) :
     graph_.edges[i][1] = v /\ KindOf(plan, graph_, graph_.edges[i][2]) = "Sort"}

PairwiseDisjoint(sets) ==
  \A i \in 1..Len(sets) : \A j \in 1..Len(sets) : i # j => sets[i] \cap sets[j] = {}

NoStepTwice == \A i \in 1..Len(descs_) : \A j \in 1..Len(descs_) : descs_[i] = descs_[j] => i = j

RECURSIVE AncestorsFrom(_, _)
AncestorsFrom(frontier, seen) ==
  IF frontier = {}
    THEN seen
    ELSE LET nxt == {graph_.edges[i][1] : i \in {k \in 1..Len(graph_.edges) :
                                                    graph_.edges[k][2] \in frontier}}
         IN AncestorsFrom(nxt \ seen, seen \cup nxt)

\* The vertices with a path to v.
Ancestors(v) == AncestorsFrom({v}, {})

\* The 0-based index of the step of a node, or NotFound.
StepIndex(node) ==
  IF node \in Range(descs_) THEN (CHOOSE i \in 1..Len(descs_) : descs_[i] = node) - 1 ELSE NotFound

\* The nodes of the plan whose kind is k.
NodesOfKind(k) == {n \in 1..Len(plan) : plan[n].kind = k}

\* The number of input slots of the plan that name node n.
Consumers(n) ==
  Cardinality({c \in (1..Len(plan)) \X {1, 2} :
                 c[2] <= Len(plan[c[1]].inputs) /\ plan[c[1]].inputs[c[2]] = n})

\* The nodes of the plan that take node n as an input.
ConsumerNodes(n) == {m \in 1..Len(plan) : n \in InputsOf(plan, m)}

\* Node n has exactly one consumer, and that consumer is not a Join.
OneNonJoinConsumer(n) ==
  /\ Cardinality(ConsumerNodes(n)) = 1
  /\ \A m \in ConsumerNodes(n) : plan[m].kind # "Join"

\* A plain Join whose only consumer is itself a Join, through one input slot.
ChainedJoin(n) ==
  /\ plan[n].kind = "Join"
  /\ Consumers(n) = 1
  /\ \A m \in ConsumerNodes(n) : plan[m].kind = "Join"

\* The vertices of the ordering before the cursor, in order.
Passed == SubSeq(ordering_, 1, current_vertex_)

(***************************************************************************)
(* C1                                                                      *)
(***************************************************************************)
\* C1 as stated: in a fully built sequence the step vertices, the
\* absorbed-join vertices and the Scan vertices are pairwise disjoint and
\* cover every vertex of the DAG exactly once.
C1_AsStated ==
  FullyBuilt =>
    /\ PairwiseDisjoint(<<StepVertices, joins_, ScanVertices>>)
    /\ StepVertices \cup joins_ \cup ScanVertices = Vertices
    /\ NoStepTwice

\* C1 (amended): in a fully built sequence the step vertices, the
\* absorbed-join vertices, the Scan vertices and the vertices absorbed as the
\* input of a Sort are pairwise disjoint and cover every vertex exactly once.
C1_Partition ==
  FullyBuilt =>
    /\ PairwiseDisjoint(<<StepVertices, joins_, ScanVertices, SortInputVertices>>)
    /\ StepVertices \cup joins_ \cup ScanVertices \cup SortInputVertices = Vertices
    /\ NoStepTwice

\* A fully built sequence with a step, an absorbed join, a Scan and an absorbed Sort input.
C1_Witness ==
  /\ FullyBuilt
  /\ StepVertices # {} /\ joins_ # {} /\ ScanVertices # {} /\ SortInputVertices # {}

(***************************************************************************)
(* C2                                                                      *)
(***************************************************************************)
\* C2: in a fully built sequence every ancestor of a step's body that is
\* neither absorbed (as a join or as the input of a Sort) nor a Scan has a
\* step, at a strictly smaller index.
C2_AncestorsFirst ==
  FullyBuilt =>
    \A s \in 1..Len(descs_) :
      \A a \in Ancestors(VertexOf(graph_.verts, descs_[s])) :
        (a \notin joins_ /\ a \notin SortInputVertices /\ a \notin ScanVertices) =>
          /\ StepIndex(graph_.verts[a + 1]) # NotFound
          /\ StepIndex(graph_.verts[a + 1]) < s - 1

\* A fully built sequence in which a step has two ancestors with steps of their own.
C2_Witness ==
  /\ FullyBuilt
  /\ \E s \in 1..Len(descs_) :
       Cardinality(Ancestors(VertexOf(graph_.verts, descs_[s])) \cap StepVertices) >= 2

(***************************************************************************)
(* C4                                                                      *)
(***************************************************************************)
\* C4: once next() has returned none, a later next() returns none again,
\* adds no step and moves neither the cursor nor the scan counter.
C4_ExhaustedStays ==
  [][(pc = "ok" /\ last_next = "none") =>
       /\ last_next' = "none"
       /\ descs_' = descs_
       /\ current_vertex_' = current_vertex_
       /\ scan_count_' = scan_count_]_vars

\* next() has been called on an exhausted sequence that holds steps and counted Scans.
C4_Witness ==
  pc = "ok" /\ none_repeated /\ last_next = "none" /\ Len(descs_) >= 2 /\ scan_count_ >= 1

(***************************************************************************)
(* C5                                                                      *)
(***************************************************************************)
\* C5: once executionFinished() has returned true, it does not return
\* false after a later call of next().
C5_FinishedStays ==
  [][(pc = "ok" /\ executionFinished = "true") => executionFinished' # "false"]_vars

(***************************************************************************)
(* C6                                                                      *)
(***************************************************************************)
\* The indices at or below idx of the steps whose body has the id body_id.
MatchesUpTo(body_id, idx) == {j \in 0..idx : getId(descs_[j + 1]) = body_id}

\* C6: for idx below the number of steps, getDescriptorByBodyId(id, idx)
\* returns the one step at an index <= idx whose body has that id, and none
\* when there is no such step.
C6_FindsTheStep ==
  pc = "ok" =>
    \A idx \in 0..(Len(descs_) - 1) : \A n \in 1..Len(plan) :
      LET r == getDescriptorByBodyId(getId(n), idx)
      IN /\ MatchesUpTo(getId(n), idx) = {} => r = NotFound
         /\ MatchesUpTo(getId(n), idx) # {} => MatchesUpTo(getId(n), idx) = {r}

\* Three steps: the body of the last one is not found from index 1, that of the first one is.
C6_Witness ==
  /\ pc = "ok" /\ Len(descs_) = 3
  /\ getDescriptorByBodyId(getId(descs_[3]), 1) = NotFound
  /\ getDescriptorByBodyId(getId(descs_[1]), 1) = 0

(***************************************************************************)
(* C7                                                                      *)
(***************************************************************************)
\* A Sort of the plan whose input is a Scan, or is taken by another input slot as well.
BadSort(n) ==
  /\ plan[n].kind = "Sort"
  /\ \/ plan[plan[n].inputs[1]].kind = "Scan"
     \/ Consumers(plan[n].inputs[1]) > 1

\* C7: when a Sort's input is a Scan or has out-degree above 1, the
\* constructor throws, and no step has been materialized.
C7_BadSortRejected ==
  (ConstructorRan /\ \E n \in 1..Len(plan) : BadSort(n)) =>
    /\ pc = "error"
    /\ descs_ = <<>>

\* The constructor threw for a Sort whose input has another consumer.
C7_Witness ==
  /\ pc = "error"
  /\ error = "Sort's input node used by others not supported yet"
  /\ \E n \in 1..Len(plan) : BadSort(n)

(***************************************************************************)
(* C8                                                                      *)
(***************************************************************************)
IsSortProjectScan ==
  /\ Len(plan) = 3
  /\ plan[1].kind = "Sort" /\ plan[1].inputs = <<2>>
  /\ plan[2].kind = "Project" /\ plan[2].inputs = <<3>>
  /\ plan[3].kind = "Scan"

\* C8: for Sort(Project(Scan)) construction succeeds, the Project is
\* absorbed and never gets a step; the Sort step is the only step.
C8_SortAbsorbsProject ==
  (ConstructorRan /\ IsSortProjectScan) =>
    /\ pc = "ok"
    /\ VertexOf(graph_.verts, 2) \notin Range(ordering_)
    /\ 2 \notin Range(descs_)
    /\ FullyBuilt => descs_ = <<1>>

C8_Witness == IsSortProjectScan /\ FullyBuilt /\ Len(descs_) = 1

(***************************************************************************)
(* C9                                                                      *)
(***************************************************************************)
IsSortCompoundScan ==
  /\ Len(plan) = 3
  /\ plan[1].kind = "Sort" /\ plan[1].inputs = <<2>>
  /\ plan[2].kind = "Compound" /\ plan[2].inputs = <<3>>
  /\ plan[3].kind = "Scan"

\* C9 as stated: for Sort(Compound(Scan)) the built sequence has exactly
\* one step, its body is the Compound, and the Scan has no step.
C9_AsStated ==
  (IsSortCompoundScan /\ FullyBuilt) =>
    /\ Len(descs_) = 1
    /\ plan[descs_[1]].kind = "Compound"
    /\ 3 \notin Range(descs_)

\* C9 (amended): for Sort(Compound(Scan)) the built sequence has exactly one
\* step, its body is the Sort (the Compound is absorbed into it), and the
\* Scan has no step but is counted once.
C9_OneSortStep ==
  (IsSortCompoundScan /\ ConstructorRan) =>
    /\ pc = "ok"
    /\ FullyBuilt =>
         /\ Len(descs_) = 1
         /\ plan[descs_[1]].kind = "Sort"
         /\ 2 \notin Range(descs_)
         /\ 3 \notin Range(descs_)
         /\ scan_count_ = 1

C9_Witness == IsSortCompoundScan /\ FullyBuilt /\ Len(descs_) = 1

(***************************************************************************)
(* C10                                                                     *)
(***************************************************************************)
\* C10: a sink that is a bare Scan or a bare Join makes the constructor
\* throw before a graph, an ordering or a step exists.
C10_BareSinkRejected ==
  (ConstructorRan /\ plan[1].kind \in {"Scan", "Join"}) =>
    /\ pc = "error"
    /\ error = "Query not supported yet"
    /\ graph_ = EmptyGraph
    /\ ordering_ = <<>>
    /\ joins_ = {}
    /\ descs_ = <<>>

\* The constructor threw for Join(ScanA, ScanB) as the root.
C10_Witness ==
  /\ pc = "error"
  /\ Len(plan) = 3
  /\ plan[1].kind = "Join" /\ plan[1].inputs = <<2, 3>>
  /\ plan[2].kind = "Scan" /\ plan[3].kind = "Scan"

(***************************************************************************)
(* C3                                                                      *)
(***************************************************************************)
\* While the executor runs step i: every earlier step holds a result, and
\* so does every ancestor of the body that is neither absorbed nor a Scan.
PredecessorsHaveResults ==
  (exec_pc = "step" /\ config.entry = "Seq") =>
    /\ \A j \in 0..(step_i - 1) : j \in results
    /\ \A a \in Ancestors(VertexOf(graph_.verts, descs_[step_i + 1])) :
         (a \notin joins_ /\ a \notin SortInputVertices /\ a \notin ScanVertices) =>
           StepIndex(graph_.verts[a + 1]) \in results

\* C3: in executeRelAlgSeq the executor is invoked for step i only when all
\* steps before i have stored their results (so all ancestors that have steps
\* have results), and within one call the step index only ever moves from i
\* to i + 1, after step i stored its result.
C3_StepsInOrder ==
  /\ []PredecessorsHaveResults
  /\ [][(exec_pc \in {"loop", "step"} /\ config.entry = "Seq") =>
          \/ step_i' = step_i
          \/ step_i' = step_i + 1 /\ exec_pc = "step" /\ step_i \in results']_vars

\* The third step is being retried on CPU; its body has ancestors with steps.
C3_Witness ==
  /\ exec_pc = "step" /\ config.entry = "Seq" /\ step_i = 2 /\ attempt = "cpu"
  /\ Ancestors(VertexOf(graph_.verts, descs_[step_i + 1])) \cap StepVertices # {}

C12_ChainedJoinsRejected ==
  (ConstructorRan /\ \E n \in 1..Len(plan) : ChainedJoin(n)) =>
    /\ pc = "error"
    /\ descs_ = <<>>

(***************************************************************************)
(* C13                                                                     *)
(***************************************************************************)
\* C13: in every state of a constructed sequence no step has a Scan or an
\* absorbed join as its body; the steps are exactly the vertices passed by
\* the cursor that are neither, in order, and the scan counter is the number
\* of Scan vertices passed that are not absorbed joins.
C13_NoScanOrJoinStep ==
  pc = "ok" =>
    /\ \A i \in 1..Len(descs_) :
         /\ plan[descs_[i]].kind # "Scan"
         /\ VertexOf(graph_.verts, descs_[i]) \notin joins_
    /\ Len(descs_) = Len(SelectSeq(Passed, LAMBDA v :
                           v \notin joins_ /\ KindOf(plan, graph_, v) # "Scan"))
    /\ descs_ = [i \in 1..Len(descs_) |->
                   graph_.verts[SelectSeq(Passed, LAMBDA v :
                     v \notin joins_ /\ KindOf(plan, graph_, v) # "Scan")[i] + 1]]
    /\ scan_count_ = Len(SelectSeq(Passed, LAMBDA v :
                           v \notin joins_ /\ KindOf(plan, graph_, v) = "Scan"))

\* next() has passed an absorbed join and a Scan and has made a step since.
C13_Witness ==
  /\ pc = "ok" /\ last_next = "step"
  /\ Range(Passed) \cap joins_ # {}
  /\ scan_count_ >= 1
  /\ Len(descs_) >= 1

(***************************************************************************)
(* C16                                                                     *)
(***************************************************************************)
\* An attempt of step i has just ended with QueryMustRunOnCpu.
MustRunOnCpuSignalled == exec_pc = "step" /\ last_outcome' = "QueryMustRunOnCpu"

\* The same step is issued again with makeCpuOnly(co), nothing else moving.
ReissuedOnCpu ==
  /\ exec_pc' = "step" /\ attempt' = "cpu"
  /\ UNCHANGED <<step_i, config, exec_desc_count, results, temporary_tables_>>

\* The failure leaves the loop and the step is not issued again.
Propagated == exec_pc' = "failed" /\ UNCHANGED <<step_i, attempt>>

\* C16: when the attempt of a step issued by the loop of executeRelAlgSeq or
\* executeRelAlgSubSeq signals QueryMustRunOnCpu, the same step is re-issued
\* with CPU-only options if allow_query_step_cpu_retry is set, and the
\* failure is propagated without a re-issue otherwise; a failure of a
\* re-issued attempt, whatever it signals, is propagated, so the step is
\* re-issued exactly once.
C16_CpuRetryOnce ==
  [][/\ (MustRunOnCpuSignalled /\ attempt = "first") =>
          IF config.allow_query_step_cpu_retry THEN ReissuedOnCpu ELSE Propagated
     /\ (exec_pc = "step" /\ attempt # "first"
           /\ last_outcome' \notin {"ok", "ok_push_down"}) => Propagated]_vars

\* executeRelAlgSubSeq is re-issuing its second step on CPU.
C16_Witness ==
  /\ exec_pc = "step" /\ config.entry = "SubSeq" /\ step_i = 1
  /\ attempt = "cpu" /\ last_outcome = "QueryMustRunOnCpu"

(***************************************************************************)
(* C17                                                                     *)
(***************************************************************************)
\* A rung of the loop re-issues the failed step.
StepReissued == exec_pc = "step" /\ exec_pc' = "step"

\* The catch clause of executeRelAlgQuery runs the query again.
QueryReissued == exec_pc = "failed" /\ exec_pc' = "loop"

\* C17 as stated: whenever a failed step is attempted again, by a rung of
\* the loop or by the CPU retry of executeRelAlgQuery, the results stored and
\* the temporary tables published by the earlier steps are unchanged and
\* execution resumes at the failed step.
C17_AsStated ==
  [][(StepReissued \/ QueryReissued) =>
       UNCHANGED <<results, temporary_tables_, step_i>>]_vars

\* C17 (amended): when a rung of the step loop (CPU or Extern re-issue)
\* attempts a failed step again, the results and the temporary tables of the
\* earlier steps are unchanged and only that step is executed again; the CPU
\* retry of executeRelAlgQuery instead starts over: no result is kept,
\* temporary_tables_ is emptied and execution restarts at step 0.
C17_StepRetryKeepsResults ==
  [][/\ StepReissued => UNCHANGED <<results, temporary_tables_, step_i>>
     /\ QueryReissued => results' = {} /\ temporary_tables_' = {} /\ step_i' = 0]_vars

\* The third step is being re-issued while the first two hold results and
\* have published their tables.
C17_Witness ==
  /\ exec_pc = "step" /\ attempt \in {"cpu", "extern"} /\ step_i = 2
  /\ results = {0, 1} /\ Cardinality(temporary_tables_) = 2

(***************************************************************************)
(* C18                                                                     *)
(***************************************************************************)
\* An attempt of step i in executeRelAlgSeq has just ended with NativeExecutionError.
NativeErrorSignalled ==
  exec_pc = "step" /\ config.entry = "Seq" /\ last_outcome' = "NativeExecutionError"

\* The Extern path may take the body of step i.
ExternSupported ==
  /\ config.enable_interop
  /\ ~(plan[descs_[step_i + 1]].kind = "Compound" /\ config.compound_aggregates)

\* The same step is issued again with executor_type = Extern, nothing else moving.
ReissuedExtern ==
  /\ exec_pc' = "step" /\ attempt' = "extern"
  /\ UNCHANGED <<step_i, config, exec_desc_count, results, temporary_tables_>>

\* C18: when the attempt of a step issued by the loop of executeRelAlgSeq
\* fails with NativeExecutionError, the step is re-issued through the Extern
\* path if and only if interop is enabled and the body is not a Compound with
\* group-by keys or aggregation, and the failure is propagated otherwise; a
\* NativeExecutionError of a re-issued attempt is propagated, so the step is
\* re-issued once.
C18_ExternRetryOnce ==
  [][/\ (NativeErrorSignalled /\ attempt = "first") =>
          IF ExternSupported THEN ReissuedExtern ELSE Propagated
     /\ (NativeErrorSignalled /\ attempt # "first") => Propagated]_vars

\* A Compound step without group-by keys or aggregation is being re-issued
\* through the Extern path.
C18_Witness ==
  /\ exec_pc = "step" /\ attempt = "extern" /\ last_outcome = "NativeExecutionError"
  /\ plan[descs_[step_i + 1]].kind = "Compound" /\ ~config.compound_aggregates

(***************************************************************************)
(* C14                                                                     *)
(***************************************************************************)
\* An executor call of the retry loop has just ended with an out-of-slots error.
SlotsErrorInLoop == oom_pc = "cpu" /\ oom_code' < 0

\* The loop doubles the guess and calls the executor again.
Doubles ==
  /\ oom_pc' = "cpu"
  /\ guess' = 2 * ExecutorGuess(guess)
  /\ doublings' = doublings + 1

\* The loop ends with the fatal out-of-slots error, the guess not doubled.
FatalOutOfSlots ==
  /\ oom_pc' = "thrown"
  /\ oom_error' = "Query ran out of output slots in the result"
  /\ doublings' = doublings

\* C14: the retry loop doubles the guess at most 2 times, and with the
\* watchdog enabled not at all; an out-of-slots error raises the fatal
\* 'Query ran out of output slots in the result' whenever it comes with the
\* watchdog enabled or after the second iteration of the loop, and the guess
\* is doubled only otherwise.
C14_SlotsCap ==
  /\ [](doublings <= 2 /\ (oom_cfg.watchdog => doublings = 0))
  /\ [][SlotsErrorInLoop =>
          IF oom_cfg.watchdog \/ iteration_ctr >= 2 THEN FatalOutOfSlots ELSE Doubles]_vars

\* With the watchdog enabled the loop, past its second iteration, has ended
\* an out-of-slots error with the fatal error.
C14_Witness ==
  /\ oom_pc = "thrown" /\ oom_cfg.watchdog /\ iteration_ctr >= 2 /\ oom_code < 0
  /\ oom_error = "Query ran out of output slots in the result"

(***************************************************************************)
(* C15                                                                     *)
(***************************************************************************)
\* C15: whatever the executor answers and whatever the configuration,
\* execute_and_handle_errors with its retry loop comes to an end: it returns
\* a result or raises an error.
C15_Terminates == <>(oom_pc \in {"returned", "thrown", "cardinality", "aborted"})

(***************************************************************************)
(* C19                                                                     *)
(***************************************************************************)
\* C19: a kernel-per-fragment retry that succeeds ends the recovery: its
\* result is returned and the executor is not called again.
C19_SingleFragResultReturned ==
  [][(oom_pc = "single_frag" /\ oom_code' = NoErrorCode) =>
       (oom_pc' = "returned" /\ result_from' = "single_frag")]_vars

(***************************************************************************)
(* C20                                                                     *)
(***************************************************************************)
\* An executor call has just ended with an error that is handed to
\* handlePersistentError.
PersistentErrorHandled ==
  \/ oom_pc = "first" /\ oom_code' # NoErrorCode
       /\ ~(~oom_cfg.has_ndv_estimation /\ oom_code' < 0)
  \/ oom_pc = "single_frag" /\ oom_code' # NoErrorCode
  \/ oom_pc = "cpu" /\ oom_code' > 0

\* C20: of the codes handed to handlePersistentError, out-of-GPU-memory lets
\* recovery go on if allow_cpu_retry is set and raises 'Query ran out of GPU
\* memory, unable to automatically retry on CPU' if not; every other code is
\* raised as an error whose message is that of the code; and
\* handleOutOfMemoryRetry is entered only after out-of-GPU-memory with
\* allow_cpu_retry set.
C20_PersistentErrors ==
  /\ [][PersistentErrorHandled =>
          IF oom_code' = ERR_OUT_OF_GPU_MEM
            THEN IF oom_cfg.allow_cpu_retry
                   THEN oom_pc' \in {"single_frag", "cpu"}
                   ELSE /\ oom_pc' = "thrown"
                        /\ oom_error' =
                             "Query ran out of GPU memory, unable to automatically retry on CPU"
            ELSE /\ oom_pc' = "thrown"
                 /\ oom_error' = getErrorMessageFromCode(oom_code')]_vars
  /\ [][(oom_pc = "first" /\ oom_pc' \in {"single_frag", "cpu"}) =>
          (oom_code' = ERR_OUT_OF_GPU_MEM /\ oom_cfg.allow_cpu_retry)]_vars
  /\ [](oom_pc \in {"single_frag", "cpu"} => oom_cfg.allow_cpu_retry)

\* Inside the retry loop, after an out-of-GPU-memory error that was let
\* pass, a division by zero has been raised with its message from the table.
C20_Witness ==
  /\ oom_pc = "thrown" /\ iteration_ctr >= 1 /\ oom_code = ERR_DIV_BY_ZERO
  /\ oom_error = "ERR_DIV_BY_ZERO: Division by zero"

(***************************************************************************)
(* C21                                                                     *)
(***************************************************************************)
\* The cache holds an entry under the fingerprint of the running call.
CachedUnderKey == \E entry \in cardinality_cache : entry.key = wu_in.cache_key

\* C21: getNDVEstimation is run only after the cache has been looked up
\* under the unit's fingerprint and the lookup has missed; a call that finds
\* an estimate stored under its fingerprint by an earlier call runs no NDV
\* estimation; and what a lookup returns is an entry stored under the
\* fingerprint it was looked up with.
C21_CacheBeforeNdv ==
  /\ [][(ndv_ran' /\ ~ndv_ran) =>
          (lookups' >= 1 /\ ~cached_cardinality'.first /\ ~CachedUnderKey)]_vars
  /\ [](hit_at_start => ~ndv_ran)
  /\ []((lookups >= 1 /\ cached_cardinality.first) =>
          /\ cached_cardinality.key = wu_in.cache_key
          /\ [key |-> wu_in.cache_key, card |-> cached_cardinality.second]
               \in cardinality_cache)

\* A call whose fingerprint has an estimate stored, next to one stored under
\* the other fingerprint, has caught CardinalityEstimationRequired, looked
\* the cache up again and repeats the executor call without NDV estimation.
C21_Witness ==
  /\ wu_pc = "catch" /\ hit_at_start /\ lookups = 2 /\ ~ndv_ran
  /\ \E entry \in cardinality_cache : entry.key # wu_in.cache_key

(***************************************************************************)
(* C22                                                                     *)
(***************************************************************************)
\* C22: the cache changes only when the call repeated with the estimated
\* guess, after a lookup that missed, returns, and the call is neither
\* just_validate nor just_explain; what is stored is the estimated guess
\* under the unit's fingerprint.
C22_CacheWrittenAfterRetry ==
  [][cardinality_cache' # cardinality_cache =>
       /\ wu_pc = "catch" /\ wu_pc' = "returned"
       /\ ndv_ran /\ ~cached_cardinality.first /\ ~hit_at_start
       /\ ~wu_in.just_validate /\ ~wu_in.just_explain
       /\ cardinality_cache' =
            addToCardinalityCache(cardinality_cache, wu_in.cache_key, wu_call.guess)]_vars

\* An estimate has been stored by a call that found none.
C22_Witness ==
  /\ wu_pc = "returned" /\ ndv_ran /\ ~hit_at_start
  /\ [key |-> wu_in.cache_key, card |-> wu_call.guess] \in cardinality_cache

C24_InterruptFatal ==
  [][(/\ wu_pc \in {"preflight", "try", "catch"}
      /\ wu_pc' # wu_pc \/ executor_code' # executor_code
      /\ executor_code' \in {ERR_INTERRUPTED, ERR_OUT_OF_TIME}) =>
       (wu_pc' = "thrown" /\ wu_error' = getErrorMessageFromCode(executor_code'))]_vars

(***************************************************************************)
(* C25                                                                     *)
(***************************************************************************)
\* executeRelAlgSeq or executeRelAlgSubSeq is entered.
ExecutionStarts == exec_pc \in {"idle", "done", "failed"} /\ exec_pc' \in {"loop", "aborted"}

\* The key under which step i publishes.
StepKey(i) == -getId(descs_[i + 1])

\* While the steps run no entry is removed, and an entry is added only as a
\* step completes: one entry, under that step's key.
EntriesOnlyAdded ==
  exec_pc \in {"loop", "step"} =>
    /\ temporary_tables_ \subseteq temporary_tables_'
    /\ temporary_tables_' # temporary_tables_ =>
         /\ exec_pc = "step" /\ step_i' = step_i + 1
         /\ temporary_tables_' = temporary_tables_ \cup {StepKey(step_i)}

C26_AsStated ==
  []((exec_pc \in {"loop", "step", "done"} /\ config.entry = "Seq"
        /\ ~config.with_existing_temp_tables) =>
       \A i \in 0..(step_i - 1) : StepKey(i) \in temporary_tables_)

\* temporary_tables_ changes while the steps run.
EntryWritten == temporary_tables_' # temporary_tables_ /\ exec_pc \in {"loop", "step"}

\* The entry of step i is written by an attempt that returned a result, and
\* the loop goes on to step i + 1.
WrittenBySuccess ==
  /\ exec_pc = "step" /\ last_outcome' = "ok"
  /\ StepKey(step_i) \notin temporary_tables_
  /\ temporary_tables_' = temporary_tables_ \cup {StepKey(step_i)}
  /\ step_i' = step_i + 1 /\ exec_pc' = "loop"

\* C26 (amended): temporary_tables_ changes only when an attempt of a step
\* returns a result, by the one entry under the negated id of the step's
\* body, which was not there before, and the step is not attempted again;
\* an attempt that fails, and one whose result comes back with filter
\* push-down enabled, write no entry.
C26_EntryWrittenOnce ==
  /\ [][EntryWritten => WrittenBySuccess]_vars
  /\ [][(exec_pc = "step" /\ exec_pc' \in {"loop", "step", "failed"} /\ ~UNCHANGED execVars) =>
          IF last_outcome' = "ok"
            THEN StepKey(step_i) \in temporary_tables_'
            ELSE temporary_tables_' = temporary_tables_]_vars

\* A step has published its entry by the attempt re-issued on CPU, the
\* first attempt having written none.
C26_Witness ==
  /\ exec_pc = "loop" /\ attempt = "cpu" /\ last_outcome = "ok" /\ step_i = 2
  /\ StepKey(1) \in temporary_tables_

(***************************************************************************)
(* C27                                                                     *)
(***************************************************************************)
\* executeRelAlgStep is called for a body whose isNop() is true, and returns.
NopStepExecuted ==
  /\ exec_pc = "loop" /\ step_i < exec_desc_count /\ StepBody \in nops
  /\ exec_pc' # "aborted" /\ vars' # vars

\* The entry of the input of the body of the step under way.
InputEntry ==
  CHOOSE entry \in table_data : entry.key = -getId(plan[StepBody].inputs[1])

\* The step has the result of its input, has published it under its own
\* key, and has left every other entry as it was.
InputRepublished ==
  /\ InputEntry \in table_data
  /\ [step |-> step_i, data |-> InputEntry.data] \in result_data'
  /\ table_data' = table_data \cup {[key |-> -getId(StepBody), data |-> InputEntry.data]}
  /\ temporary_tables_' = temporary_tables_ \cup {-getId(StepBody)}

\* C27: a step whose body is a no-op is executed without the executor being
\* invoked; its result and its entry, under the negated id of its body, are
\* what the entry of its input holds, and the input's entry stays as it is.
C27_NopRepublishesInput ==
  [][NopStepExecuted => (exec_pc' = "loop" /\ step_i' = step_i + 1 /\ InputRepublished)]_vars

\* A no-op step has published the table its input computed.
C27_Witness ==
  /\ last_outcome = "nop" /\ exec_pc = "done"
  /\ \E entry \in table_data : entry.data # -entry.key /\ -entry.key \in nops

(***************************************************************************)
(* C30                                                                     *)
(***************************************************************************)
\* C30: executeRelAlgQuerySingleStep returns Reduce exactly if the node it
\* has executeRelAlgStep called for is an Aggregate or a Compound that
\* aggregates, and Union if not, and returns the id of that node; for a Sort
\* executed through its source that node is the source, otherwise it is the
\* body of the step.
C30_MergeTypeOfExecuted ==
  [](single_step # NoSingleStep =>
       /\ single_step.merge_type =
            IF node_is_aggregate(single_step.executed, config.compound_aggregates)
              THEN "Reduce"
              ELSE "Union"
       /\ single_step.node_id = getId(single_step.executed)
       /\ single_step.executed = IF single_step.via_source
                                   THEN plan[single_step.body].inputs[1]
                                   ELSE single_step.body
       /\ single_step.via_source => plan[single_step.body].kind = "Sort"
       /\ exec_pc = "step" => StepBody = single_step.executed)

\* A Sort step has been executed through its Aggregate source: Reduce was
\* returned with the result.
C30_Witness ==
  /\ exec_pc = "done" /\ single_step.via_source /\ single_step.merge_type = "Reduce"
  /\ single_step.executed \in aggregates

(***************************************************************************)
(* C28: when step 0 of the main sequence starts in executeRelAlgQueryNoRetry, *)
(* every subquery's node holds a result: those that held none when the call *)
(* began have been executed to the end by a sub-engine constructed for them *)
(* (its registry empty at that point); a subquery whose node holds a result *)
(* is never handed to a sub-engine; and no step of the dispatch changes the *)
(* registry of the main engine.                                             *)
(***************************************************************************)
MainSequenceStarted == sq_pc = "dispatch" /\ exec_pc # "idle"

SubEngineStarts == sq_pc = "dispatch" /\ sq_pc' = "sub"

DispatchStep == sq_pc' = "sub" \/ sq_pc = "sub" \/ (sq_pc = "dispatch" /\ sq_i' # sq_i)

FailureOutcomes == {"QueryMustRunOnCpu", "NativeExecutionError", "error"}

FinalAttemptFails ==
  exec_pc = "step" /\ exec_pc' # "step" /\ last_outcome' \in FailureOutcomes

WholeQueryRerun ==
  /\ last_outcome = "QueryMustRunOnCpu"
  /\ exec_pc' \in {"loop", "aborted"}
  /\ step_i' = 0 /\ results' = {} /\ temporary_tables_' = {}
  /\ config'.device_type = "CPU"

AfterThrow == exec_pc = "failed" /\ ~UNCHANGED execVars

ReturnsLastStepResult ==
  /\ step_i = exec_desc_count /\ exec_desc_count >= 1
  /\ last_outcome \in {"ok", "ok_push_down"}
  /\ (exec_desc_count - 1) \in results
  /\ [step |-> exec_desc_count - 1, data |-> descs_[exec_desc_count]] \in result_data

C29_FailureAbortsQuery ==
  /\ [][FinalAttemptFails => (exec_pc' \in {"failed", "aborted"} /\ step_i' = step_i)]_vars
  /\ [][AfterThrow => WholeQueryRerun]_vars
  /\ [](exec_pc = "done" /\ config.entry = "Seq" => ReturnsLastStepResult)

C29_Witness ==
  /\ exec_pc = "failed" /\ last_outcome = "error" /\ config.entry = "Seq"
  /\ step_i >= 1 /\ step_i + 1 < exec_desc_count
  /\ (step_i - 1) \in results /\ step_i \notin results

(***************************************************************************)
(* C31 as stated: for a Sort without collation over a source that is not   *)
(* an aggregate, the rows are not sorted and the single-step path executes *)
(* the source alone.                                                       *)
(***************************************************************************)
PlainSort == sort_in.collation_count = 0 /\ ~sort_in.source_aggregate

SortExecuted == sort_ran.executed = "sort" /\ ~result_set.just_explain_

TotalRows ==
  IF result_set.permutation_ # 0
    THEN result_set.permutation_
    ELSE IF result_set.storage_ THEN result_set.entries ELSE 0

Truncated ==
  IF TotalRows < result_set.drop_first_
    THEN 0
    ELSE IF result_set.keep_first_ > 0 /\ TotalRows - result_set.drop_first_ > result_set.keep_first_
           THEN result_set.keep_first_
           ELSE TotalRows - result_set.drop_first_

SortReturns == sort_ran.executed = "none" /\ sort_ran'.executed = "sort"

C40_RowCountTruncated ==
  /\ [](/\ result_set.cached_row_count_ # uninitialized_cached_row_count
          => result_set.cached_row_count_ = rowCountImpl(result_set)
        /\ (returned_row_count # NoRowCount /\ ~result_set.just_explain_)
          => returned_row_count = Truncated
        /\ (returned_row_count # NoRowCount /\ result_set.keep_first_ > 0)
          => returned_row_count <= result_set.keep_first_)
  /\ [][(SortReturns /\ sort_in'.limit > 0 /\ ~result_set'.just_explain_) =>
          /\ result_set'.keep_first_ = sort_in'.limit
          /\ result_set'.drop_first_ = sort_in'.offset
          /\ rowCountImpl(result_set') <= sort_in'.limit]_vars

C40_Witness ==
  /\ sort_ran.executed = "sort" /\ sort_ran.rows_sorted
  /\ result_set.entries = MaxRows /\ result_set.permutation_ = 2
  /\ result_set.drop_first_ = 1 /\ result_set.keep_first_ = 1
  /\ returned_row_count = 1

(***************************************************************************)
(* C32: whatever the entry (executeRelAlgSeq, executeRelAlgSubSeq), an     *)
(* attempt of a step that ends is followed by what the loop of             *)
(* executeRelAlgSeq does after the same answer of the executor under the   *)
(* same configuration: the next step, the re-issue on CPU, the re-issue    *)
(* with the Extern executor, or the exception leaving the loop.            *)
(***************************************************************************)
AttemptEnds == exec_pc = "step" /\ ~UNCHANGED execVars

AfterAttemptInSeq ==
  AfterAttempt([config EXCEPT !.entry = "Seq"], BodyKind(StepBody), attempt, last_outcome')

C32_SameLadder ==
  [][AttemptEnds =>
       \/ exec_pc' = "aborted"
       \/ AfterAttemptInSeq = "next" /\ exec_pc' = "loop" /\ step_i' = step_i + 1
       \/ AfterAttemptInSeq = "retry_cpu" /\ exec_pc' = "step" /\ attempt' = "cpu"
       \/ AfterAttemptInSeq = "retry_extern" /\ exec_pc' = "step" /\ attempt' = "extern"
       \/ AfterAttemptInSeq = "throw" /\ exec_pc' = "failed"]_vars

(***************************************************************************)
(* C33: on a constructed sequence executionFinished() returns true when    *)
(* all vertices have been visited, when exactly one step remains to be     *)
(* materialized, and when the steps materialized plus                      *)
(* stepsToNextBroadcast() make the total number of steps.                  *)
(***************************************************************************)
AllVerticesVisited == current_vertex_ = Len(ordering_)

StepsRemaining == CountDescriptors(plan, graph_, ordering_, joins_, current_vertex_)

NoFurtherBroadcast ==
  /\ stepsToNextBroadcast # Aborted
  /\ Len(descs_) + stepsToNextBroadcast = totalDescriptorsCount

RECURSIVE ReachedFrom(_, _)
ReachedFrom(frontier, seen) ==
  IF frontier = {}
    THEN seen
    ELSE LET nxt == UNION {Range(plan[n].inputs) : n \in {m \in frontier : plan[m].kind # "Scan"}}
         IN ReachedFrom(nxt \ seen, seen \cup nxt)

ReachableNodes == ReachedFrom({1}, {1})

EdgesBetween(producer, consumer) ==
  Cardinality({k \in 1..Len(graph_.edges) : graph_.edges[k] = <<producer, consumer>>})

PositionsHolding(consumer_node, producer_node) ==
  IF plan[consumer_node].kind = "Scan"
    THEN 0
    ELSE Cardinality({i \in 1..Len(plan[consumer_node].inputs) :
                        plan[consumer_node].inputs[i] = producer_node})

DagBuilt == pc \in {"ok", "error"} /\ graph_ # EmptyGraph

C34_DenseVertices ==
  DagBuilt =>
    /\ graph_.verts[1] = 1
    /\ Range(graph_.verts) = ReachableNodes
    /\ \A v \in Vertices : \A w \in Vertices : graph_.verts[v + 1] = graph_.verts[w + 1] => v = w
    /\ \A v \in Vertices \ {0} : \E c \in Vertices : c < v /\ EdgesBetween(v, c) > 0
    /\ \A p \in Vertices : \A c \in Vertices :
         EdgesBetween(p, c) = PositionsHolding(graph_.verts[c + 1], graph_.verts[p + 1])

C34_Witness ==
  /\ pc = "ok" /\ NumVertices(graph_) >= 3
  /\ \E v \in Vertices : \E c \in Vertices : \E d \in Vertices :
       c # d /\ EdgesBetween(v, c) > 0 /\ EdgesBetween(v, d) > 0
  /\ \E v \in Vertices : \E c \in Vertices : EdgesBetween(v, c) = 2

(***************************************************************************)
(* C35: in the loop of handleOutOfMemoryRetry the guess is doubled only in *)
(* the iterations 0 and 1, each doubling using up an iteration, so at most *)
(* two times whether the watchdog is enabled or not; an out-of-slots error *)
(* of an iteration after these raises "Query ran out of output slots in    *)
(* the result" and leaves the guess as it is.                              *)
(***************************************************************************)
GuessDoubled == doublings' = doublings + 1

IterationsOfGrowingGuess == IF iteration_ctr < 2 THEN iteration_ctr ELSE 2

C35_TwoGrowingIterations ==
  /\ [](iteration_ctr >= 0 => doublings <= IterationsOfGrowingGuess)
  /\ [][GuessDoubled =>
          /\ iteration_ctr \in {0, 1} /\ iteration_ctr' = iteration_ctr + 1
          /\ oom_code' < 0
          /\ guess' = 2 * ExecutorGuess(guess)]_vars
  /\ [][(SlotsErrorInLoop /\ iteration_ctr >= 2 /\ ExecutorGuess(guess) # 0) =>
          (FatalOutOfSlots /\ guess' = ExecutorGuess(guess))]_vars

C35_Witness ==
  /\ oom_pc = "thrown" /\ ~oom_cfg.watchdog
  /\ doublings = 2 /\ guess = 4 * ConservativeGuess
  /\ oom_error = "Query ran out of output slots in the result"

(***************************************************************************)
(* C36: every executor invocation of the loop of handleOutOfMemoryRetry is *)
(* made with CPU-only compilation options, with multi-fragment launch, the *)
(* explain modes and the push-down-candidate search switched off and with  *)
(* the bump allocator off, whatever the caller passed; the first of them   *)
(* is handed the guess 0, whatever guess the failing invocation was left   *)
(* with.                                                                   *)
(***************************************************************************)
LoopInvocation == oom_call.by = "cpu"

EntersLoop == oom_pc # "cpu" /\ oom_pc' = "cpu"

SeqAttemptEnds == config.entry = "Seq" /\ AttemptEnds

StepAttemptedAgain == exec_pc' = "step"

C37_AtMostTwoAttempts ==
  [][SeqAttemptEnds =>
       /\ step_i' >= step_i
       /\ StepAttemptedAgain =>
            (attempt = "first" /\ attempt' \in {"cpu", "extern"} /\ step_i' = step_i)
       /\ attempt # "first" =>
            IF last_outcome' \in {"ok", "ok_push_down"}
              THEN exec_pc' = "aborted" \/ (exec_pc' = "loop" /\ step_i' = step_i + 1)
              ELSE exec_pc' = "failed" /\ attempt' = attempt /\ step_i' = step_i]_vars

C37_Witness ==
  /\ exec_pc = "failed" /\ config.entry = "Seq"
  /\ config.device_type = "GPU" /\ config.allow_query_step_cpu_retry /\ config.enable_interop
  /\ \/ attempt = "cpu" /\ last_outcome = "NativeExecutionError"
     \/ attempt = "extern" /\ last_outcome = "QueryMustRunOnCpu"
  /\ ~(BodyKind(StepBody) = "Compound" /\ config.compound_aggregates)

(***************************************************************************)
(* C38: on a sequence the constructor built, and at every position of the  *)
(* cursor, stepsToNextBroadcast runs to its end: no CHECK of it fails.     *)
(* Every vertex of joins_ it meets is a LeftDeepInnerJoin, and a join      *)
(* without Scan input that is not followed by two more vertices is         *)
(* followed by exactly one.                                                *)
(***************************************************************************)
C38_BroadcastChecksHold == pc = "ok" => stepsToNextBroadcast # Aborted

(***************************************************************************)
(* C39: a sequence the constructor has built to its end (build_sequence    *)
(* true, or next() called until it returned none) holds at least one step, *)
(* so that executeRelAlgSeq, which CHECKs that the sequence is not empty,  *)
(* does not abort on it.                                                   *)
(***************************************************************************)
SequenceBuilt == pc = "ok" /\ last_next = "none"

C39_BuiltSequenceHasStep == SequenceBuilt => descs_ # <<>>

====
